---- MODULE Spec2Model ----
(***************************************************************************)
(* Model of the agent CLI of Scarmonit-Architecture:                       *)
(*   - AgentWorker.parse_response  (src/agent-cli/agent.py)                *)
(*   - AgentWorker.run             (src/agent-cli/agent.py)                *)
(*   - MultiAgentOrchestrator      (src/agent-cli/orchestrator.py)         *)
(*                                                                         *)
(* Python strings are sequences of tokens.  A token is one character       *)
(* ("{", "a", "1", ...) or one of the literal substrings the code searches *)
(* for, kept atomic ("TOOL:", "ARGS:", "ANSWER:", a markdown fence, ...). *)
(* Python values (the results of json.loads, the dicts the code builds)    *)
(* are tagged records [k |-> kind, v |-> payload].                         *)
(***************************************************************************)
EXTENDS Integers, Sequences, FiniteSets, TLC

VARIABLES
    \* --- parse_response called on its own (SpecParse) ---
    response,       \* the argument of parse_response
    nfrags,         \* how many fragments the response was built from
    parsed,         \* what parse_response returned for it (NotParsed before)
    \* --- execute_tool called on its own (SpecTool) ---
    t_pc,           \* "idle" | "returned"
    t_name,         \* the tool_name argument
    t_args,         \* the args argument
    t_outcome,      \* what the tool method of the MCP client did
    t_text,         \* the text execute_tool returned
    \* --- one AgentWorker.run (SpecAgent) ---
    a_pc,           \* "unbuilt" | "no_agent" (the constructor raised) | "idle" |
                    \* "loop" | "done" | "raised" (an exception left run)
    a_task,         \* the task string, as the set of keywords it contains
    max_iterations, \* self.max_iterations
    a_i,            \* the loop variable i of run
    messages,       \* the conversation: sequence of [role, content]
    history,        \* self.history
    replies,        \* what query_llm returned, call by call
    tool_calls,     \* the calls of execute_tool: sequence of [tool, args]
    a_result,       \* the dict run returned
    runs,           \* how many times run was called on this instance
    \* --- MultiAgentOrchestrator (Spec) ---
    o_pc,           \* "idle" | "pool" | "gathered" | "done" | "raised"
    entry,          \* the method the caller called: "run" | "execute_parallel"
    max_workers,    \* self.max_workers
    summarize,      \* the summarize argument of run
    o_task,         \* the task argument of run
    llm_reply,      \* what _query_llm returned for the decomposition prompt
    subtasks,       \* the list run / execute_parallel works on
    fut,            \* fut[i]: state of the future of subtasks[i]
    produced,       \* produced[i]: what _run_agent(i-1, subtasks[i]) did
    results,        \* the local list results of execute_parallel, before the sort
    returned,       \* the list execute_parallel returned
    summary_calls,  \* number of summarize_results calls
    timeline,       \* the clock readings and model queries of run, in the order made
    o_result,       \* the OrchestratorResult run returned
    \* --- the Discord bot (SpecBot) ---
    ALLOWED_USER_IDS, \* the list the module builds from the environment
    carried_out,    \* the privileged actions performed: sequence of
                    \* [action, author, checked]
    sent,           \* what the last handler sent back
    \* --- interactive_mode (SpecInteractive) ---
    i_pc,           \* "off" | "reading" | "ended"
    stdin,          \* the lines input() has still to deliver
    single_mode,    \* the local single_mode
    workers,        \* the local workers
    model,          \* the local model
    printed         \* what the last pass of the loop printed

parse_vars == <<response, nfrags, parsed>>
tool_vars  == <<t_pc, t_name, t_args, t_outcome, t_text>>
agent_vars == <<a_pc, a_task, max_iterations, a_i, messages, history, replies,
                tool_calls, a_result, runs>>
orch_vars  == <<o_pc, entry, max_workers, summarize, o_task, llm_reply, subtasks,
                fut, produced, results, returned, summary_calls, timeline,
                o_result>>
bot_vars   == <<ALLOWED_USER_IDS, carried_out, sent>>
repl_vars  == <<i_pc, stdin, single_mode, workers, model, printed>>
front_vars == <<bot_vars, repl_vars>>
vars == <<parse_vars, tool_vars, agent_vars, orch_vars, front_vars>>

----------------------------------------------------------------------------
(* Tokens *)

TOOL   == "TOOL:"
ARGS   == "ARGS:"
ANSWER == "ANSWER:"
LBRACE == "{"
RBRACE == "}"
LBRACK == "["
RBRACK == "]"
LPAREN == "("
COLON  == ":"
COMMA  == ","
DQ     == "DQ"       \* the double quote character
NL     == "NL"       \* chr(10)
SP     == "SP"       \* a blank
FENCE  == "FENCE"    \* a markdown fence: three backticks
JSONW  == "json"     \* the four letters "json"

----------------------------------------------------------------------------
(* Python values *)

PyNone     == [k |-> "none", v |-> <<>>]
PyStr(s)   == [k |-> "str",  v |-> s]
PyInt(ds)  == [k |-> "int",  v |-> ds]
PyList(xs) == [k |-> "list", v |-> xs]
PyDict(f)  == [k |-> "dict", v |-> f]

----------------------------------------------------------------------------
(* str methods *)

Range(s) == {s[i] : i \in 1..Len(s)}

\* (m in s), m one token
Contains(s, m) == m \in Range(s)

IsSpace(c) == c \in {SP, NL}

RECURSIVE LStrip(_)
LStrip(s) == IF s # <<>> /\ IsSpace(Head(s)) THEN LStrip(Tail(s)) ELSE s

RECURSIVE RStrip(_)
RStrip(s) ==
    IF s # <<>> /\ IsSpace(s[Len(s)]) THEN RStrip(SubSeq(s, 1, Len(s) - 1)) ELSE s

\* s.strip()
Strip(s) == RStrip(LStrip(s))

\* index of the first occurrence of token m in s, 0 when there is none
RECURSIVE FindFrom(_, _, _)
FindFrom(s, m, i) ==
    IF i > Len(s) THEN 0 ELSE IF s[i] = m THEN i ELSE FindFrom(s, m, i + 1)

Find(s, m) == FindFrom(s, m, 1)

\* s.split(m, 1): found is whether the list has an element [1], rest is that element
Split1(s, m) ==
    LET p == Find(s, m)
    IN  IF p = 0 THEN [found |-> FALSE, rest |-> <<>>]
        ELSE [found |-> TRUE, rest |-> SubSeq(s, p + 1, Len(s))]

\* s.split(m)[0]
SplitHead(s, m) ==
    LET p == Find(s, m) IN IF p = 0 THEN s ELSE SubSeq(s, 1, p - 1)

\* s.split("\n")[0]
FirstLine(s) == SplitHead(s, NL)

\* s.startswith(p), p a sequence of tokens
StartsWith(s, p) == Len(s) >= Len(p) /\ SubSeq(s, 1, Len(p)) = p

----------------------------------------------------------------------------
(* json.loads on token sequences.  The grammar is JSON's, over the tokens  *)
(* above: objects, arrays, strings (any tokens but the quote and the line  *)
(* break between two quotes) and numbers (runs of the digit "1"); blanks   *)
(* and line breaks are JSON whitespace.                                    *)

Fail     == [ok |-> FALSE, val |-> PyNone, next |-> 0]
Ok(v, n) == [ok |-> TRUE, val |-> v, next |-> n]

IsDigit(c) == c = "1"

RECURSIVE SkipWs(_, _)
SkipWs(s, i) == IF i <= Len(s) /\ IsSpace(s[i]) THEN SkipWs(s, i + 1) ELSE i

\* the index of the quote closing the string whose content starts at j; 0 if none
RECURSIVE ScanString(_, _)
ScanString(s, j) ==
    IF j > Len(s) THEN 0
    ELSE IF s[j] = DQ THEN j
    ELSE IF s[j] = NL THEN 0
    ELSE ScanString(s, j + 1)

ParseString(s, i) ==
    LET j == ScanString(s, i + 1)
    IN  IF j = 0 THEN Fail ELSE Ok(PyStr(SubSeq(s, i + 1, j - 1)), j + 1)

RECURSIVE ScanDigits(_, _)
ScanDigits(s, j) == IF j <= Len(s) /\ IsDigit(s[j]) THEN ScanDigits(s, j + 1) ELSE j

ParseNumber(s, i) ==
    LET j == ScanDigits(s, i) IN Ok(PyInt(SubSeq(s, i, j - 1)), j)

RECURSIVE ParseValue(_, _)
RECURSIVE ParseMembers(_, _, _)
RECURSIVE ParseElements(_, _, _)

\* the members of an object from the key at i on; acc holds the pairs read so far
\* (a repeated key keeps its last value, as a Python dict does)
ParseMembers(s, i, acc) ==
    IF i > Len(s) \/ s[i] # DQ THEN Fail
    ELSE
    LET key == ParseString(s, i) IN
    IF ~key.ok THEN Fail
    ELSE
    LET i1 == SkipWs(s, key.next) IN
    IF i1 > Len(s) \/ s[i1] # COLON THEN Fail
    ELSE
    LET val == ParseValue(s, SkipWs(s, i1 + 1)) IN
    IF ~val.ok THEN Fail
    ELSE
    LET i3   == SkipWs(s, val.next)
        acc2 == (key.val.v :> val.val) @@ acc
    IN  IF i3 > Len(s) THEN Fail
        ELSE IF s[i3] = RBRACE THEN Ok(PyDict(acc2), i3 + 1)
        ELSE IF s[i3] = COMMA THEN ParseMembers(s, SkipWs(s, i3 + 1), acc2)
        ELSE Fail

\* the elements of an array from the value at i on
ParseElements(s, i, acc) ==
    LET val == ParseValue(s, i) IN
    IF ~val.ok THEN Fail
    ELSE
    LET i3   == SkipWs(s, val.next)
        acc2 == Append(acc, val.val)
    IN  IF i3 > Len(s) THEN Fail
        ELSE IF s[i3] = RBRACK THEN Ok(PyList(acc2), i3 + 1)
        ELSE IF s[i3] = COMMA THEN ParseElements(s, SkipWs(s, i3 + 1), acc2)
        ELSE Fail

\* the JSON value that starts exactly at i
ParseValue(s, i) ==
    IF i > Len(s) THEN Fail
    ELSE IF s[i] = LBRACE THEN
        LET j == SkipWs(s, i + 1)
        IN  IF j <= Len(s) /\ s[j] = RBRACE THEN Ok(PyDict(<<>>), j + 1)
            ELSE ParseMembers(s, j, <<>>)
    ELSE IF s[i] = LBRACK THEN
        LET j == SkipWs(s, i + 1)
        IN  IF j <= Len(s) /\ s[j] = RBRACK THEN Ok(PyList(<<>>), j + 1)
            ELSE ParseElements(s, j, <<>>)
    ELSE IF s[i] = DQ THEN ParseString(s, i)
    ELSE IF IsDigit(s[i]) THEN ParseNumber(s, i)
    ELSE Fail

\* json.loads(s): ok is FALSE where json.loads raises
json_loads(s) ==
    LET r == ParseValue(s, SkipWs(s, 1))
    IN  IF ~r.ok THEN Fail
        ELSE IF SkipWs(s, r.next) = Len(s) + 1 THEN r
        ELSE Fail

----------------------------------------------------------------------------
(* AgentWorker.parse_response *)

RAW_KEY     == <<"r", "a", "w">>      \* the key "raw"
COMMAND_KEY == <<"command">>          \* the key "command"
RUN_COMMAND == <<"run_command">>      \* the tool name "run_command"

\* the dict parse_response returns; type "raised" stands for an exception that
\* leaves parse_response
Parsed(t, tool, args, content) ==
    [type |-> t, tool |-> tool, args |-> args, content |-> content]

NotParsed == Parsed("none", <<>>, PyNone, <<>>)
Raised    == Parsed("raised", <<>>, PyNone, <<>>)

\* the loop of lines 116-124: the value of json_end when it ends
RECURSIVE MatchBraces(_, _, _, _)
MatchBraces(args_part, idx, brace_count, started) ==
    IF idx > Len(args_part) THEN 0
    ELSE
    LET ch == args_part[idx]
        bc == IF ch = LBRACE THEN brace_count + 1
              ELSE IF ch = RBRACE THEN brace_count - 1
              ELSE brace_count
        st == started \/ ch = LBRACE
    IN  IF st /\ bc = 0 THEN idx ELSE MatchBraces(args_part, idx + 1, bc, st)

\* .replace("```json", "")
RECURSIVE ReplaceFenceJson(_)
ReplaceFenceJson(s) ==
    IF s = <<>> THEN <<>>
    ELSE IF Len(s) >= 2 /\ s[1] = FENCE /\ s[2] = JSONW
         THEN ReplaceFenceJson(SubSeq(s, 3, Len(s)))
    ELSE <<Head(s)>> \o ReplaceFenceJson(Tail(s))

\* .replace("```", "")
ReplaceFence(s) == SelectSeq(s, LAMBDA c : c # FENCE)

\* lines 126-130: the text handed to the JSON parser, before cleaning
JsonStr(args_part) ==
    LET json_end == MatchBraces(args_part, 1, 0, FALSE)
    IN  IF json_end > 0 THEN SubSeq(args_part, 1, json_end)
        ELSE FirstLine(args_part)

\* line 133
CleanJsonStr(json_str) == Strip(ReplaceFence(ReplaceFenceJson(json_str)))

\* line 138
RawArgs(args_part) == PyDict(RAW_KEY :> PyStr(FirstLine(args_part)))

\* lines 111-138: the inner try block
ParseArgs(args_part) ==
    LET r == json_loads(CleanJsonStr(JsonStr(args_part)))
    IN  IF r.ok THEN r.val ELSE RawArgs(args_part)

\* lines 105-108
ToolLine(rest) ==
    LET tool_line == Strip(FirstLine(rest))
    IN  IF Contains(tool_line, LPAREN) THEN Strip(SplitHead(tool_line, LPAREN))
        ELSE tool_line

\* line 109
ArgsPart(resp) ==
    IF Contains(resp, ARGS) THEN Strip(Split1(resp, ARGS).rest)
    ELSE <<LBRACE, RBRACE>>

\* lines 104-142: the outer try block; an IndexError of split(...)[1] is caught
\* at line 141
ToolBranch(resp) ==
    LET sp == Split1(resp, TOOL)
    IN  IF ~sp.found THEN Parsed("error", <<>>, PyNone, <<"Failed to parse tool call">>)
        ELSE Parsed("tool", ToolLine(sp.rest), ParseArgs(ArgsPart(resp)), <<>>)

\* lines 145-146, outside any try: an IndexError of split(...)[1] leaves the method
AnswerBranch(resp) ==
    LET sp == Split1(resp, ANSWER)
    IN  IF ~sp.found THEN Raised
        ELSE Parsed("answer", <<>>, PyNone, Strip(sp.rest))

\* line 149
raw_patterns ==
    {"docker ps", "docker logs", "systemctl", "kubectl", "curl ", "git status",
     "nmap ", "ipconfig"}

\* str.lower() of one token; the upper-case tokens of the model are listed
Lower(c) ==
    CASE c = "KUBECTL"  -> "kubectl"
      [] c = "Running " -> "running "
      [] c = "A"        -> "a"
      [] c = "Docker_PS" -> "docker_ps"
      [] c = "/QUIT"    -> "/quit"
      [] OTHER          -> c

\* line 151, for some p
HasRawPattern(resp) == \E i \in 1..Len(resp) : Lower(resp[i]) \in raw_patterns

\* lines 154-155 for one prefix
DropPrefix(cmd, prefix) ==
    IF cmd # <<>> /\ Lower(cmd[1]) = prefix THEN Tail(cmd) ELSE cmd

\* lines 152-157
RawCommandBranch(resp) ==
    LET cmd0 == Strip(FirstLine(resp))
        cmd  == DropPrefix(DropPrefix(DropPrefix(cmd0, "let me run "), "running "),
                           "execute ")
    IN  Parsed("tool", RUN_COMMAND, PyDict(COMMAND_KEY :> PyStr(cmd)), <<>>)

\* line 103 as it would be without the membership test
HasToolMarkerUnguarded(resp) == TRUE

\* line 103
HasToolMarker(resp) == Contains(resp, TOOL)

\* line 144 as it would be without the membership test
HasAnswerMarkerUnguarded(resp) == TRUE

\* line 144
HasAnswerMarker(resp) == Contains(resp, ANSWER)

\* lines 98-159 as they would be with the ANSWER test ahead of the TOOL test
parse_response_answer_first(response0) ==
    LET resp == Strip(response0)
    IN  IF HasAnswerMarker(resp) THEN AnswerBranch(resp)
        ELSE IF HasToolMarker(resp) THEN ToolBranch(resp)
        ELSE IF HasRawPattern(resp) THEN RawCommandBranch(resp)
        ELSE Parsed("thought", <<>>, PyNone, resp)

\* lines 98-159
parse_response(response0) ==
    LET resp == Strip(response0)
    IN  IF HasToolMarker(resp) THEN ToolBranch(resp)
        ELSE IF HasAnswerMarker(resp) THEN AnswerBranch(resp)
        ELSE IF HasRawPattern(resp) THEN RawCommandBranch(resp)
        ELSE Parsed("thought", <<>>, PyNone, resp)

----------------------------------------------------------------------------
(* agent_fixed.AgentWorker.parse_response, agent_fixed.py 94-141 *)

\* lines 107-113 of agent_fixed.py: the tool name is the rest of the TOOL line
\* as it is, the args are the first line after ARGS: if it is JSON, else {}
fixed_ToolBranch(resp) ==
    LET tool_line == Strip(FirstLine(Split1(resp, TOOL).rest))
        r         == json_loads(FirstLine(ArgsPart(resp)))
    IN  Parsed("tool", tool_line, IF r.ok THEN r.val ELSE PyDict(<<>>), <<>>)

\* lines 117-138 of agent_fixed.py, for the patterns a single token of the
\* model can match: re.search(r'docker\s+ps'), (r'git\s+status'), (r'nmap\s+');
\* the other nine need text ("kubectl get pods", "ls ", "cat x", ...) that no
\* text of the model spells: a bare "kubectl" matches none of them
fixed_raw_command(resp) ==
    LET low == {Lower(resp[i]) : i \in 1..Len(resp)}
    IN  IF "docker ps" \in low
            THEN Parsed("tool", <<"docker_ps">>, PyDict(<<>>), <<>>)
        ELSE IF "git status" \in low
            THEN Parsed("tool", <<"git_status">>,
                        PyDict(<<"repo">> :> PyStr(<<".">>)), <<>>)
        ELSE IF "nmap " \in low
            THEN Parsed("tool", RUN_COMMAND,
                        PyDict(COMMAND_KEY :> PyStr(<<"echo nmap not available">>)), <<>>)
        ELSE Parsed("thought", <<>>, PyNone, resp)

\* agent_fixed.py 94-141: ANSWER: is tested before TOOL:
fixed_parse_response(response0) ==
    LET resp == Strip(response0)
    IN  IF Contains(resp, ANSWER) THEN AnswerBranch(resp)
        ELSE IF Contains(resp, TOOL) THEN fixed_ToolBranch(resp)
        ELSE fixed_raw_command(resp)

----------------------------------------------------------------------------
(* parse_response on its own: the response is put together from at most    *)
(* MaxFrags fragments, then parse_response is called on it.                *)

MaxFrags == 3

OBJ_FLAT   == <<LBRACE, DQ, "a", DQ, COLON, "1", RBRACE>>              \* {"a":1}
OBJ_NESTED == <<LBRACE, DQ, "a", DQ, COLON, LBRACE, DQ, "b", DQ, COLON, "1",
                RBRACE, RBRACE>>                                      \* {"a":{"b":1}}
OBJ_CLOSE  == <<LBRACE, DQ, "a", DQ, COLON, DQ, RBRACE, DQ, RBRACE>>   \* {"a":"}"}
OBJ_OPEN   == <<LBRACE, DQ, "a", DQ, COLON, DQ, LBRACE, DQ, RBRACE>>   \* {"a":"{"}
TOOL_HEAD  == <<TOOL, SP, "a", NL, ARGS, SP>>                          \* TOOL: a\nARGS:

\* a tool line with words after the name: "TOOL: list_files a 1"
TOOL_TRAILING == <<TOOL, SP, "list_files", SP, "a", SP, "1">>

Fragments ==
    { <<TOOL>>, <<ARGS>>, <<ANSWER>>, <<LBRACE>>, <<RBRACE>>, <<NL>>, <<"a">>,
      <<"1">>, <<LPAREN>>, <<FENCE>>, <<"kubectl">>, <<"Running ">>, <<"execute ">>,
      TOOL_HEAD, TOOL_TRAILING, OBJ_FLAT, OBJ_NESTED, OBJ_CLOSE, OBJ_OPEN }

ParseIdle == /\ response = <<>>
             /\ nfrags = 0
             /\ parsed = NotParsed

\* the caller extends the text it is going to pass
AppendFragment(f) ==
    /\ parsed = NotParsed
    /\ nfrags < MaxFrags
    /\ response' = response \o f
    /\ nfrags' = nfrags + 1
    /\ UNCHANGED parsed

\* the caller calls parse_response(response)
CallParseResponse ==
    /\ parsed = NotParsed
    /\ parsed' = parse_response(response)
    /\ UNCHANGED <<response, nfrags>>

----------------------------------------------------------------------------
(* AgentWorker.run: the ReAct loop of one agent.                           *)

MaxBudget == 3      \* the largest value of self.max_iterations the model sets

\* the tasks the model runs: one for each branch of the first-turn override
Tasks ==
    { <<"a">>,
      <<"Check", SP, "a">>,
      <<"list", SP, "docker">>,
      <<"list", SP, "file">>,
      <<"kubernetes">> }

\* str.lower() of a whole text
LowerText(s) == [i \in 1..Len(s) |-> IF s[i] = "Check" THEN "check" ELSE Lower(s[i])]

FORCE_DOCKER_PS  == <<TOOL, SP, "docker_ps", NL, ARGS, SP, LBRACE, RBRACE>>
FORCE_GET_PODS   == <<TOOL, SP, "get_pods", NL, ARGS, SP, LBRACE, RBRACE>>
FORCE_LIST_FILES == <<TOOL, SP, "list_files", NL, ARGS, SP,
                      LBRACE, DQ, "path", DQ, COLON, SP, DQ, ".", DQ, RBRACE>>

\* line 221 as it would be without the test of i
OverrideAppliesEveryTurn(i, resp) == ~Contains(resp, TOOL)

\* whether the override of lines 221-231 looks at the task at all
OverrideApplies(i, resp) == i = 0 /\ ~Contains(resp, TOOL)

\* lines 223-231: the response the loop goes on with
TaskOverride(task, resp) ==
    LET task_lower == LowerText(task)
        has(w)     == Contains(task_lower, w)
    IN  IF has("docker") /\ (has("list") \/ has("container")) THEN FORCE_DOCKER_PS
        ELSE IF has("kubernetes") \/ has("pod") THEN FORCE_GET_PODS
        ELSE IF has("file") /\ has("list") THEN FORCE_LIST_FILES
        ELSE IF has("status") \/ has("check") THEN FORCE_GET_PODS
        ELSE resp

\* lines 219-231
EffectiveResponse(task, i, resp) ==
    IF OverrideApplies(i, resp) THEN TaskOverride(task, resp) ELSE resp

\* what query_llm can return: the model's text, or the text of a failure
REPLY_THOUGHT == <<"a">>
REPLY_ANSWER  == <<ANSWER, SP, "4", "2">>
REPLY_TOOL    == <<TOOL, SP, "docker_ps", NL, ARGS, SP, LBRACE, RBRACE>>
REPLY_UNKNOWN == <<TOOL, SP, "A">>          \* no tool is called "a"
REPLY_ERROR   == <<"Error querying LLM: ", "e">>
REPLY_BAD_ARGS == <<TOOL, SP, "list_files", NL, ARGS, SP, "1">>
REPLY_TOOL_CASE == <<TOOL, SP, "Docker_PS">>

ModelReplies ==
    {REPLY_THOUGHT, REPLY_ANSWER, REPLY_TOOL, REPLY_UNKNOWN, REPLY_ERROR, REPLY_BAD_ARGS,
     REPLY_TOOL_CASE}

\* lines 166-196: the names execute_tool dispatches on
KnownTools ==
    { "list_files", "read_file", "write_file", "git_status", "git_log", "get_pods",
      "kubectl_logs", "docker_ps", "docker_logs", "run_command", "fetch_url",
      "web_search" }

\* --- MCPClient (mcp_client.py): what a tool method returns ---

\* a run of 500 characters of tool output, kept atomic
BLOCK == "x500"

\* len() of one token, in characters
CharLen(tok) ==
    CASE tok = BLOCK                         -> 500
      [] tok = "Tool error: "                -> 12
      [] tok = "Exception executing tool: "  -> 26
      [] tok = "Unknown tool: "              -> 14
      [] tok = "Timeout after 30s"           -> 17
      [] tok = "Unknown error"               -> 13
      [] tok = "duckduckgo-search library not installed" -> 39
      [] tok = "Written to "                 -> 11
      [] tok \in {"stdout", "stderr"}        -> 6
      [] tok = "list_files"                  -> 10
      [] OTHER                               -> 1

\* len(s)
RECURSIVE TextLen(_)
TextLen(s) == IF s = <<>> THEN 0 ELSE CharLen(Head(s)) + TextLen(Tail(s))

\* s[:n], for a cut that falls between two tokens
RECURSIVE SliceChars(_, _)
SliceChars(s, n) ==
    IF s = <<>> \/ CharLen(Head(s)) > n THEN <<>>
    ELSE <<Head(s)>> \o SliceChars(Tail(s), n - CharLen(Head(s)))

\* the dict a tool method returns: keys is the set of its keys
McpResult(success, keys, stdout, stderr, error) ==
    [raised |-> FALSE, success |-> success, keys |-> keys,
     stdout |-> stdout, stderr |-> stderr, error |-> error]

\* the tool method raised instead of returning
MCP_RAISED == [raised |-> TRUE, success |-> FALSE, keys |-> {},
               stdout |-> <<>>, stderr |-> <<>>, error |-> <<"e">>]

\* result.get(key, default)
ResultGet(result, key, default) == IF key \in result.keys THEN result[key] ELSE default

\* what subprocess.run did: the command ended, ran into the timeout, or could
\* not be started
Exited(stdout, stderr, returncode) ==
    [kind |-> "exit", stdout |-> stdout, stderr |-> stderr, returncode |-> returncode]
TimedOut == [kind |-> "timeout", stdout |-> <<>>, stderr |-> <<>>, returncode |-> 0]
NotStarted == [kind |-> "oserror", stdout |-> <<>>, stderr |-> <<>>, returncode |-> 0]

\* _run_cmd, lines 44-69 of mcp_client.py
_run_cmd(proc) ==
    IF proc.kind = "exit" THEN
        LET has_output == Strip(proc.stdout) # <<>>
            has_error  == Strip(proc.stderr) # <<>> /\ ~has_output
            success    == has_output \/ (proc.returncode = 0 /\ ~has_error)
        IN  McpResult(success, {"success", "stdout", "stderr", "returncode"},
                      proc.stdout, proc.stderr, <<>>)
    ELSE IF proc.kind = "timeout" THEN
        McpResult(FALSE, {"success", "error", "stdout", "stderr"},
                  <<>>, <<>>, <<"Timeout after 30s">>)
    ELSE
        McpResult(FALSE, {"success", "error", "stdout", "stderr"}, <<>>, <<>>, <<"e">>)

\* web_search, lines 186-196 of mcp_client.py: the library is missing, the
\* search returned, or it raised
web_search(what) ==
    IF what = "no_library" THEN
        McpResult(FALSE, {"success", "error", "stdout", "stderr"}, <<>>, <<>>,
                  <<"duckduckgo-search library not installed">>)
    ELSE IF what = "found" THEN
        McpResult(TRUE, {"success", "stdout", "stderr"}, <<LBRACK, RBRACK>>, <<>>, <<>>)
    ELSE
        McpResult(FALSE, {"success", "error", "stdout", "stderr"}, <<>>, <<"e">>, <<"e">>)

\* write_file, lines 90-97 of mcp_client.py: written, or open/write raised
write_file(what) ==
    IF what = "written" THEN
        McpResult(TRUE, {"success", "stdout", "stderr"}, <<"Written to ", "a">>, <<>>, <<>>)
    ELSE
        McpResult(FALSE, {"success", "error", "stdout", "stderr"}, <<>>, <<"e">>, <<"e">>)

\* what the MCP client did for the known tool a run of the agent executes: the
\* command printed something, it failed with a message, or the method raised
MCP_SUCCESS == _run_cmd(Exited(<<"stdout">>, <<>>, 0))
MCP_FAILURE == _run_cmd(Exited(<<>>, <<"stderr">>, 1))

ToolOutcomes == {MCP_SUCCESS, MCP_FAILURE, MCP_RAISED}

\* line 201: the length tool output is cut to
TRUNCATE_LIMIT == 1000

\* line 163 as it would be without lower()
execute_tool_case_sensitive(tool_name0, args, outcome) ==
    LET tool_name == Strip(tool_name0) IN
    IF Len(tool_name) # 1 \/ tool_name[1] \notin KnownTools
        THEN <<"Unknown tool: ">> \o tool_name
    ELSE <<"stdout">>

\* the known tools whose branch does not call args.get on whatever args is
ArgsFreeTools == {"docker_ps", "run_command"}

\* execute_tool(tool_name, args): the text it returns; outcome is what the tool
\* method of the MCP client did
execute_tool(tool_name0, args, outcome) ==
    LET tool_name == Strip(LowerText(tool_name0)) IN
    IF Len(tool_name) # 1 \/ tool_name[1] \notin KnownTools
        THEN <<"Unknown tool: ">> \o tool_name
    ELSE IF tool_name[1] \notin ArgsFreeTools /\ args.k # "dict"
        THEN <<"Exception executing tool: ", "e">>       \* args.get raises
    ELSE IF outcome.raised THEN <<"Exception executing tool: ", "e">>
    ELSE IF outcome.success THEN SliceChars(outcome.stdout, TRUNCATE_LIMIT)
    ELSE <<"Tool error: ">>
         \o ResultGet(outcome, "stderr", ResultGet(outcome, "error", <<"Unknown error">>))

\* the names execute_tool is called with
ToolNames ==
    {<<t>> : t \in KnownTools}
    \cup { <<"A">>, <<SP, "Docker_PS", NL>>, <<"list_files", SP, "a">> }

\* the args execute_tool is called with: what parse_response can produce
ToolArgs == { PyDict(<<>>), PyInt(<<"1">>), PyList(<<>>) }

\* the ways a command run by _run_cmd can go: its output is nothing, short, as
\* long as the limit, or longer
CommandOutputs == { <<>>, <<"o">>, <<BLOCK, BLOCK>>, <<BLOCK, BLOCK, BLOCK>> }
CommandErrors  == { <<>>, <<"e">>, <<BLOCK, BLOCK, BLOCK>> }

ProcessOutcomes ==
    { Exited(out, err, rc) : out \in CommandOutputs, err \in CommandErrors, rc \in {0, 1} }
    \cup {TimedOut, NotStarted}

\* lines 166-196: what the tool method called for a known tool can do
McpOutcomes(tool) ==
    {MCP_RAISED} \cup
    (IF tool = "web_search" THEN {web_search(w) : w \in {"no_library", "found", "raises"}}
     ELSE IF tool = "write_file" THEN {write_file(w) : w \in {"written", "raises"}}
     ELSE {_run_cmd(proc) : proc \in ProcessOutcomes})

\* the tool the dispatch of lines 166-196 selects for a name: "" when none
Dispatched(tool_name0) ==
    LET tool_name == Strip(LowerText(tool_name0))
    IN  IF Len(tool_name) = 1 /\ tool_name[1] \in KnownTools THEN tool_name[1] ELSE ""

ToolIdle ==
    /\ t_pc = "idle"
    /\ t_name = <<>>
    /\ t_args = PyNone
    /\ t_outcome = MCP_RAISED
    /\ t_text = <<>>

\* execute_tool(tool_name, args) is called and returns
CallExecuteTool(tool_name, args, outcome) ==
    /\ t_pc = "idle"
    /\ t_pc' = "returned"
    /\ t_name' = tool_name
    /\ t_args' = args
    /\ t_outcome' = outcome
    /\ t_text' = execute_tool(tool_name, args, outcome)

Message(role, content) == [role |-> role, content |-> content]

\* lines 211-214
InitialMessages(task) ==
    << Message("system", <<"You are an autonomous agent with access to tools.">>),
       Message("user", task) >>

\* the dict run returns; an absent key holds PyNone
AgentResult(status, agent_id, answer, iterations, partial_history) ==
    [status |-> status, agent_id |-> agent_id, answer |-> answer,
     iterations |-> iterations, partial_history |-> partial_history]

NoResult == AgentResult("none", PyNone, PyNone, 0, <<>>)

\* the agent_id the command line gives its agent (line 276)
CLI_AGENT == PyStr(<<"cli-agent">>)

\* self.history[-3:]
LastThree(h) == SubSeq(h, IF Len(h) > 3 THEN Len(h) - 2 ELSE 1, Len(h))

\* lines 239-244 as they would be with the 0-based loop index as the count
CompleteResultZeroBased(agent_id, content, i) ==
    AgentResult("complete", agent_id, PyStr(content), i, <<>>)

\* lines 239-244
CompleteResult(agent_id, content, i) ==
    AgentResult("complete", agent_id, PyStr(content), i + 1, <<>>)

\* lines 260-265
MaxIterationsResult(agent_id, h, budget) ==
    AgentResult("max_iterations", agent_id, PyNone, budget, LastThree(h))

\* line 216 as it would be with one pass too many
LoopContinuesOneMore(i, budget) == i <= budget

\* line 216 as it would be with a loop that only an answer ends
LoopContinuesUntilAnswer(i, budget) == TRUE

\* line 216: whether range(self.max_iterations) yields another i
LoopContinues(i, budget) == i < budget

\* lines 252-253 as they would be without the user message
ToolTurnNoUser(resp, tool_result) == << Message("assistant", resp) >>

\* lines 252-253: what a tool iteration appends to messages
ToolTurn(resp, tool_result) ==
    << Message("assistant", resp),
       Message("user", <<"Tool result:">> \o tool_result
                       \o <<"Continue reasoning or provide ANSWER.">>) >>

\* lines 257-258 as they would be if the response were not kept
ThoughtTurnDropsResponse(resp) ==
    << Message("assistant", <<>>),
       Message("user", <<"Continue. Use a TOOL or provide ANSWER.">>) >>

\* lines 257-258: what a thought iteration appends to messages
ThoughtTurn(resp) ==
    << Message("assistant", resp),
       Message("user", <<"Continue. Use a TOOL or provide ANSWER.">>) >>

AgentIdle ==
    /\ a_pc = "idle"
    /\ a_task = <<>>
    /\ a_i = 0
    /\ messages = <<>>
    /\ history = <<>>
    /\ replies = <<>>
    /\ tool_calls = <<>>
    /\ a_result = NoResult
    /\ runs = 0

\* the parameters __init__ declares besides self (line 11)
InitParameters == {"agent_id", "model"}

\* the arguments AgentWorker is constructed with: by orchestrator.py,
\* __main__.py and verify_models.py (agent_id, model), with the model left to
\* its default (agent_id alone), by test_critic.py (agent_id, critic_mode=True)
ConstructorCalls ==
    { {"agent_id", "model"}, {"agent_id"}, {"agent_id", "critic_mode"} }

\* no agent has been constructed yet
AgentUnbuilt ==
    /\ a_pc = "unbuilt"
    /\ a_task = <<>>
    /\ a_i = 0
    /\ messages = <<>>
    /\ history = <<>>
    /\ replies = <<>>
    /\ tool_calls = <<>>
    /\ a_result = NoResult
    /\ runs = 0

\* AgentWorker(...) with the given arguments, lines 11-20: a keyword __init__
\* does not declare makes the call raise TypeError, and no agent exists
Construct(arguments) ==
    /\ a_pc = "unbuilt"
    /\ a_pc' = IF arguments \subseteq InitParameters THEN "idle" ELSE "no_agent"
    /\ UNCHANGED <<a_task, max_iterations, a_i, messages, history, replies,
                   tool_calls, a_result, runs>>

\* run(task) is called: lines 209-214
AgentRun(task) ==
    /\ a_pc = "idle"
    /\ a_pc' = "loop"
    /\ a_task' = task
    /\ a_i' = 0
    /\ messages' = InitialMessages(task)
    /\ runs' = 1
    /\ UNCHANGED <<max_iterations, history, replies, tool_calls, a_result>>

MaxRuns == 2        \* how many times the model calls run on one instance

\* run(task) is called again on an agent whose run has returned, lines 209-214:
\* messages is a fresh local list; self.history, set in __init__ only (line 19),
\* keeps the records of the earlier runs
AgentRunAgain(task) ==
    /\ a_pc = "done"
    /\ runs < MaxRuns
    /\ runs' = runs + 1
    /\ a_pc' = "loop"
    /\ a_task' = task
    /\ a_i' = 0
    /\ messages' = InitialMessages(task)
    /\ replies' = <<>>
    /\ tool_calls' = <<>>
    /\ a_result' = NoResult
    /\ UNCHANGED <<max_iterations, history>>

\* one pass of the loop body, lines 217-258: query_llm returns reply; outcome is
\* what the MCP client does if a known tool is executed
AgentIterate(reply, outcome) ==
    /\ a_pc = "loop"
    /\ LoopContinues(a_i, max_iterations)
    /\ LET resp == EffectiveResponse(a_task, a_i, reply)
           p    == parse_response(resp)
       IN  /\ replies' = Append(replies, reply)
           /\ history' = Append(history,
                                [iteration |-> a_i + 1, response |-> resp, parsed |-> p])
           /\ IF p.type = "answer" THEN
                  /\ a_result' = CompleteResult(CLI_AGENT, p.content, a_i)
                  /\ a_pc' = "done"
                  /\ UNCHANGED <<a_i, messages, tool_calls>>
              ELSE IF p.type = "tool" THEN
                  /\ tool_calls' = Append(tool_calls, [tool |-> p.tool, args |-> p.args])
                  /\ messages' = messages
                                    \o ToolTurn(resp, execute_tool(p.tool, p.args, outcome))
                  /\ a_i' = a_i + 1
                  /\ UNCHANGED <<a_pc, a_result>>
              ELSE
                  /\ messages' = messages \o ThoughtTurn(resp)
                  /\ a_i' = a_i + 1
                  /\ UNCHANGED <<a_pc, a_result, tool_calls>>
    /\ UNCHANGED <<a_task, max_iterations, runs>>

\* one pass of the loop in which query_llm returns None: the server answered
\* 200 with "content": null, line 93 returns it as it is, and the test of line
\* 221 (first pass) or the slice of line 233 (later passes) raises TypeError,
\* which nothing in run catches
AgentQueryReturnsNone ==
    /\ a_pc = "loop"
    /\ LoopContinues(a_i, max_iterations)
    /\ a_pc' = "raised"
    /\ UNCHANGED <<a_task, max_iterations, a_i, messages, history, replies,
                   tool_calls, a_result, runs>>

\* the loop ends without an answer, lines 260-267
AgentExhausted ==
    /\ a_pc = "loop"
    /\ ~LoopContinues(a_i, max_iterations)
    /\ a_result' = MaxIterationsResult(CLI_AGENT, history, max_iterations)
    /\ a_pc' = "done"
    /\ UNCHANGED <<a_task, max_iterations, a_i, messages, history, replies, tool_calls,
                   runs>>

----------------------------------------------------------------------------
(* MultiAgentOrchestrator *)

MaxWorkers  == 3    \* the largest max_workers the model configures
MaxSubtasks == 3    \* the longest subtask list the model works on

DEFAULT_MAX_ITERATIONS == 10    \* the budget of the agents _run_agent creates

Min(a, b) == IF a < b THEN a ELSE b
Max(a, b) == IF a > b THEN a ELSE b

\* xs[:n]
SliceTo(xs, n) ==
    IF n >= 0 THEN SubSeq(xs, 1, Min(n, Len(xs)))
    ELSE SubSeq(xs, 1, Max(Len(xs) + n, 0))

\* the text of a JSON array of i strings, "s1" .. "si", as the model writes it
RECURSIVE ArrayItems(_)
ArrayItems(i) ==
    IF i = 0 THEN <<>>
    ELSE IF i = 1 THEN <<DQ, "s", "1", DQ>>
    ELSE ArrayItems(i - 1) \o <<COMMA, SP, DQ, "s">> \o [j \in 1..i |-> "1"] \o <<DQ>>

ArrayText(i) == <<LBRACK>> \o ArrayItems(i) \o <<RBRACK>>

\* the i-th subtask such an array names
SubtaskName(i) == PyStr(<<"s">> \o [j \in 1..i |-> "1"])

\* what _query_llm can return for the decomposition prompt
R_ERROR == <<"Error: ", "e">>                                    \* line 52
R_TEXT  == <<"a", SP, "b">>
R_OBJECT == OBJ_FLAT
R_NUMBER == <<"1">>
R_MIXED  == <<LBRACK, "1", COMMA, DQ, "a", DQ, RBRACK>>
R_FENCED_TEXT == <<FENCE, "a", FENCE>>
R_FENCED(i)   == <<"a", NL, FENCE, JSONW, NL>> \o ArrayText(i) \o <<NL, FENCE, NL, "a">>

DecompositionReplies ==
    {R_ERROR, R_TEXT, R_OBJECT, R_NUMBER, R_MIXED, R_FENCED_TEXT}
    \cup {ArrayText(i) : i \in 0..(MaxSubtasks + 1)}
    \cup {R_FENCED(i) : i \in 1..2}

\* lines 74-78: the text handed to json.loads
Unfenced(reply) ==
    IF Contains(reply, FENCE) THEN
        LET inner == SplitHead(Split1(reply, FENCE).rest, FENCE)    \* split("```")[1]
        IN  Strip(IF StartsWith(inner, <<JSONW>>) THEN Tail(inner) ELSE inner)
    ELSE Strip(reply)

\* line 86 as it would be with an empty fallback list
FallbackSubtasksEmpty(task) == <<>>

\* line 86
FallbackSubtasks(task) == <<task>>

\* decompose_task, lines 69-86, given what _query_llm returned
decompose_task(task, reply, nworkers) ==
    LET r == json_loads(Unfenced(reply))
    IN  IF r.ok /\ r.val.k = "list" THEN SliceTo(r.val.v, nworkers)
        ELSE FallbackSubtasks(task)

\* what _run_agent did for one subtask: it returned result, or raised error
Returned(result) == [raised |-> FALSE, error |-> <<>>, result |-> result]
Raises(error)    == [raised |-> TRUE, error |-> error, result |-> NoResult]
NotRun           == [raised |-> FALSE, error |-> <<>>, result |-> NoResult]

\* f"agent-{agent_id}"
AgentId(idx) == PyStr(<<"agent-", ToString(idx)>>)

\* the outcomes of AgentWorker(f"agent-{idx}").run(task)
AgentOutcomes(idx) ==
    { Returned(CompleteResult(AgentId(idx), <<"ans">>, 0)),
      Returned(MaxIterationsResult(AgentId(idx), <<>>, DEFAULT_MAX_ITERATIONS)),
      Raises(<<"e">>) }

\* lines 123-127 as they would be without the text of the exception
ErrorResultNoText(error) ==
    AgentResult("error", PyNone, PyStr(<<"Agent error: ">>), 0, <<>>)

\* lines 123-127
ErrorResult(error) ==
    AgentResult("error", PyNone, PyStr(<<"Agent error: ">> \o error), 0, <<>>)

\* lines 119-127: the pair the loop appends for the future of index idx
CollectedPair(idx, outcome) ==
    <<idx, IF outcome.raised THEN ErrorResult(outcome.error) ELSE outcome.result>>

\* results.sort(key=lambda x: x[0]): insertion of one pair into a sorted list
RECURSIVE InsertByIndex(_, _)
InsertByIndex(sorted, pair) ==
    IF sorted = <<>> THEN <<pair>>
    ELSE IF pair[1] < Head(sorted)[1] THEN <<pair>> \o sorted
    ELSE <<Head(sorted)>> \o InsertByIndex(Tail(sorted), pair)

\* line 130 as it would be without the sort: completion order is kept
SortByIndexSkipped(pairs) == pairs

RECURSIVE SortByIndex(_)
SortByIndex(pairs) ==
    IF pairs = <<>> THEN <<>>
    ELSE InsertByIndex(SortByIndex(SubSeq(pairs, 1, Len(pairs) - 1)), pairs[Len(pairs)])

\* lines 130-131
OrderedResults(pairs) ==
    LET sorted == SortByIndex(pairs) IN [i \in 1..Len(sorted) |-> sorted[i][2]]

\* line 176 as it would be with any() in place of all()
OverallStatusAny(rs) ==
    IF \E i \in 1..Len(rs) : rs[i].status = "complete" THEN "complete" ELSE "partial"

\* line 176
OverallStatus(rs) ==
    IF \A i \in 1..Len(rs) : rs[i].status = "complete" THEN "complete" ELSE "partial"

\* lines 175-183
OrchestratorResult(status, task, subs, rs, summary, total_iterations) ==
    [status |-> status, task |-> task, subtasks |-> subs, results |-> rs,
     summary |-> summary, total_iterations |-> total_iterations]

NoOrchestratorResult == OrchestratorResult("none", PyNone, <<>>, <<>>, PyNone, 0)


\* the task strings the caller passes to run
OrchestratorTasks == {PyStr(<<"t">>), PyStr(<<"list", SP, "file">>)}

\* what _query_llm can return for the summary prompt
SummaryReplies == {<<"summary">>, R_ERROR}

OrchIdle ==
    /\ o_pc = "idle"
    /\ entry = "none"
    /\ summarize = FALSE
    /\ o_task = PyNone
    /\ llm_reply = <<>>
    /\ subtasks = <<>>
    /\ fut = <<>>
    /\ produced = <<>>
    /\ results = <<>>
    /\ returned = <<>>
    /\ summary_calls = 0
    /\ timeline = <<>>
    /\ o_result = NoOrchestratorResult

\* line 111: ThreadPoolExecutor(max_workers=n) raises ValueError("max_workers
\* must be greater than 0") for n <= 0
PoolCreationRaises(n) == n <= 0

\* lines 110-115: the pool is created and one future per subtask is queued, in
\* index order; when the pool cannot be created nothing is submitted and the
\* exception leaves execute_parallel (and run, which does not catch it)
Submit(subs) ==
    /\ subtasks' = subs
    /\ results' = <<>>
    /\ IF PoolCreationRaises(max_workers)
       THEN /\ fut' = <<>>
            /\ produced' = <<>>
            /\ o_pc' = "raised"
       ELSE /\ fut' = [i \in 1..Len(subs) |-> "queued"]
            /\ produced' = [i \in 1..Len(subs) |-> NotRun]
            /\ o_pc' = "pool"

\* run(task, summarize) up to the submission of the agents, lines 140-115;
\* reply is what _query_llm returns for the decomposition prompt
CallRun(task, summ, reply) ==
    /\ o_pc = "idle"
    /\ entry' = "run"
    /\ o_task' = task
    /\ summarize' = summ
    /\ llm_reply' = reply
    /\ timeline' = <<"start_time", "decomposition_query">>      \* lines 140, 144
    /\ Submit(decompose_task(task, reply, max_workers))
    /\ UNCHANGED <<max_workers, returned, summary_calls, o_result>>

\* execute_parallel(subs) called by a caller of its own
CallExecuteParallel(subs) ==
    /\ o_pc = "idle"
    /\ entry' = "execute_parallel"
    /\ Submit(subs)
    /\ UNCHANGED <<max_workers, summarize, o_task, llm_reply, returned,
                   summary_calls, timeline, o_result>>

Running == {i \in 1..Len(fut) : fut[i] = "running"}

\* a pool that starts a thread for every work item, whatever max_workers is
WorkerStartUnbounded(i) ==
    /\ o_pc = "pool"
    /\ fut[i] = "queued"
    /\ fut' = [fut EXCEPT ![i] = "running"]
    /\ UNCHANGED <<o_pc, entry, max_workers, summarize, o_task, llm_reply, subtasks,
                   produced, results, returned, summary_calls, timeline, o_result>>

\* a pool thread takes the next work item off the queue
WorkerStart(i) ==
    /\ o_pc = "pool"
    /\ fut[i] = "queued"
    /\ \A j \in 1..(i - 1) : fut[j] # "queued"
    /\ Cardinality(Running) < max_workers
    /\ fut' = [fut EXCEPT ![i] = "running"]
    /\ UNCHANGED <<o_pc, entry, max_workers, summarize, o_task, llm_reply, subtasks,
                   produced, results, returned, summary_calls, timeline, o_result>>

\* _run_agent(i - 1, subtasks[i]) ends, lines 133-136
AgentEnds(i, outcome) ==
    /\ o_pc = "pool"
    /\ fut[i] = "running"
    /\ fut' = [fut EXCEPT ![i] = "done"]
    /\ produced' = [produced EXCEPT ![i] = outcome]
    /\ UNCHANGED <<o_pc, entry, max_workers, summarize, o_task, llm_reply, subtasks,
                   results, returned, summary_calls, timeline, o_result>>

\* one pass of the as_completed loop, lines 117-127
Collect(i) ==
    /\ o_pc = "pool"
    /\ fut[i] = "done"
    /\ fut' = [fut EXCEPT ![i] = "collected"]
    /\ results' = Append(results, CollectedPair(i - 1, produced[i]))
    /\ UNCHANGED <<o_pc, entry, max_workers, summarize, o_task, llm_reply, subtasks,
                   produced, returned, summary_calls, timeline, o_result>>

\* the loop is over: lines 129-131
ExecuteParallelReturn ==
    /\ o_pc = "pool"
    /\ \A i \in 1..Len(fut) : fut[i] = "collected"
    /\ returned' = OrderedResults(results)
    /\ o_pc' = IF entry = "run" THEN "gathered" ELSE "done"
    /\ UNCHANGED <<entry, max_workers, summarize, o_task, llm_reply, subtasks, fut,
                   produced, results, summary_calls, timeline, o_result>>

\* line 154 as it would be if it counted the results
SumIterationsCount(rs) == Len(rs)

\* line 154
RECURSIVE SumIterations(_)
SumIterations(rs) ==
    IF rs = <<>> THEN 0 ELSE Head(rs).iterations + SumIterations(Tail(rs))

\* line 170 as it would be without the test of the number of results
SummaryAskedAlways(summ, rs) == summ

\* line 170: whether run calls summarize_results
SummaryAsked(summ, rs) == summ /\ Len(rs) > 1

\* lines 88-105 as they would be if a failed query gave no summary at all
summarize_results_none_on_failure(reply) ==
    IF reply = R_ERROR THEN PyNone ELSE PyStr(reply)

\* lines 88-105: whatever _query_llm returns, its "Error: ..." text of line 52
\* included, is the summary
summarize_results(reply) == PyStr(reply)

\* the rest of run, lines 153-183; reply is what _query_llm returns for the
\* summary prompt if it is asked
RunReturn(reply) ==
    /\ o_pc = "gathered"
    /\ LET asked   == SummaryAsked(summarize, returned)
           summary == IF asked THEN summarize_results(reply) ELSE PyNone
       IN  /\ summary_calls' = summary_calls + (IF asked THEN 1 ELSE 0)
           /\ timeline' = timeline \o <<"end_time">>                     \* line 155
                                   \o (IF asked THEN <<"summary_query">>  \* line 173
                                       ELSE <<>>)
           /\ o_result' = OrchestratorResult(OverallStatus(returned), o_task, subtasks,
                                             returned, summary, SumIterations(returned))
    /\ o_pc' = "done"
    /\ UNCHANGED <<entry, max_workers, summarize, o_task, llm_reply, subtasks, fut,
                   produced, results, returned>>

\* the subtask lists a direct caller of execute_parallel passes
DirectSubtasks == {[i \in 1..n |-> SubtaskName(i)] : n \in 0..MaxSubtasks}

----------------------------------------------------------------------------
(* The Discord bot, src/discord-bot/bot.py *)

MaxEnvLen == 3
MaxActions == 2

\* the characters of the value of ALLOWED_USER_IDS in the environment
EnvChars == {"1", "2", ","}

EnvTexts == UNION {[1..n -> EnvChars] : n \in 0..MaxEnvLen}

\* str(ctx.author.id) of the users who write to the bot
Authors == {<<"1">>, <<"2">>, <<"3">>}

\* str.split(","): the fields between the commas, empty ones included
RECURSIVE SplitComma(_)
SplitComma(s) ==
    IF "," \notin Range(s) THEN <<s>>
    ELSE LET k == CHOOSE i \in 1..Len(s) :
                      s[i] = "," /\ \A j \in 1..(i - 1) : s[j] # ","
         IN  <<SubSeq(s, 1, k - 1)>> \o SplitComma(SubSeq(s, k + 1, Len(s)))

\* line 48-49: a member of the list, or the first field of the list is empty
is_authorized(author) ==
    author \in Range(ALLOWED_USER_IDS) \/ ALLOWED_USER_IDS[1] = <<>>

\* DeployManager.services, line 73-78
services == {"cloudflare", "railway", "vercel", "hetzner"}

Platforms == {"cloudflare", "nowhere"}

\* the commands of !run: one holds a text of the list of line 224
Commands == {"ls", "rm -rf /"}

Blocked(command) == command = "rm -rf /"

Performed(action, author, checked) ==
    [action |-> action, author |-> author, checked |-> checked]

BotIdle ==
    /\ ALLOWED_USER_IDS = <<<<>>>>
    /\ carried_out = <<>>
    /\ sent = "none"

\* !deploy, lines 199-207
deploy(author, platform) ==
    /\ Len(carried_out) < MaxActions
    /\ IF ~is_authorized(author)
          THEN /\ sent' = "Unauthorized"
               /\ UNCHANGED carried_out
          ELSE IF platform \in services
          THEN /\ carried_out' = Append(carried_out, Performed("deploy", author, TRUE))
               /\ sent' = "deployed"
          ELSE /\ sent' = "Unknown service"
               /\ UNCHANGED carried_out
    /\ UNCHANGED ALLOWED_USER_IDS

\* !agent, lines 209-217
agent(author) ==
    /\ Len(carried_out) < MaxActions
    /\ IF ~is_authorized(author)
          THEN /\ sent' = "Unauthorized"
               /\ UNCHANGED carried_out
          ELSE /\ carried_out' = Append(carried_out, Performed("agent", author, TRUE))
               /\ sent' = "task result"
    /\ UNCHANGED ALLOWED_USER_IDS

\* !run, lines 219-236
run_command(author, command) ==
    /\ Len(carried_out) < MaxActions
    /\ IF ~is_authorized(author)
          THEN /\ sent' = "Unauthorized"
               /\ UNCHANGED carried_out
          ELSE IF Blocked(command)
          THEN /\ sent' = "Command blocked for safety"
               /\ UNCHANGED carried_out
          ELSE /\ carried_out' = Append(carried_out, Performed("run", author, TRUE))
               /\ sent' = "output"
    /\ UNCHANGED ALLOWED_USER_IDS

\* /deploy, lines 268-279: the platform is one of the four choices
slash_deploy(author, platform) ==
    /\ Len(carried_out) < MaxActions
    /\ platform \in services
    /\ carried_out' = Append(carried_out, Performed("deploy", author, FALSE))
    /\ sent' = "deployed"
    /\ UNCHANGED ALLOWED_USER_IDS

----------------------------------------------------------------------------
(* interactive_mode, src/agent-cli/__main__.py 116-169 *)

MaxLines == 2

\* the lines input() can deliver, as the words str.split() finds in them
Lines ==
    {<<>>, <<"/quit">>, <<"/QUIT">>, <<"/exit">>, <<"/single">>,
     <<"/workers", "2">>, <<"/workers", "x">>, <<"/workers">>,
     <<"/model", "m">>, <<"/bogus">>, <<"task">>}

InputStreams == UNION {[1..n -> Lines] : n \in 0..MaxLines}

\* int(text): the integer, or ValueError (ok = FALSE)
int(text) == IF text = "2" THEN [ok |-> TRUE, val |-> 2] ELSE [ok |-> FALSE, val |-> 0]

\* what run_single_agent / run_orchestrator and print_result do for a task
TaskOutcomes == {"result", "Exception", "KeyboardInterrupt"}

ReplIdle ==
    /\ i_pc = "off"
    /\ stdin = <<>>
    /\ single_mode = FALSE
    /\ workers = 3
    /\ model = "ai/llama3.2"
    /\ printed = ""

FrontIdle == BotIdle /\ ReplIdle

\* one pass with nothing left to read: input() raises EOFError (line 134),
\* which "except Exception" catches (line 168); the loop goes on
EndOfInput ==
    /\ i_pc = "reading"
    /\ stdin = <<>>
    /\ printed' = "Error: EOF when reading a line"
    /\ UNCHANGED <<i_pc, stdin, single_mode, workers, model>>

\* Ctrl-C while input() waits, lines 165-167
Interrupt ==
    /\ i_pc = "reading"
    /\ i_pc' = "ended"
    /\ printed' = "Goodbye!"
    /\ UNCHANGED <<stdin, single_mode, workers, model>>

\* one pass of the loop for the line input() delivers, lines 133-169
ReadLine(outcome) ==
    /\ i_pc = "reading"
    /\ stdin # <<>>
    /\ stdin' = Tail(stdin)
    /\ LET task == Head(stdin)
           cmd  == [k \in 1..Len(task) |-> Lower(task[k])]
       IN  IF task = <<>>
               THEN UNCHANGED <<i_pc, single_mode, workers, model, printed>>
           ELSE IF cmd[1] \in {"/quit", "/exit"}
               THEN /\ i_pc' = "ended"
                    /\ printed' = "Goodbye!"
                    /\ UNCHANGED <<single_mode, workers, model>>
           ELSE IF cmd[1] = "/single"
               THEN /\ single_mode' = ~single_mode
                    /\ printed' = "Single agent mode"
                    /\ UNCHANGED <<i_pc, workers, model>>
           ELSE IF cmd[1] = "/workers" /\ Len(cmd) > 1
               THEN IF ~int(cmd[2]).ok
                       THEN /\ printed' = "Error: invalid literal for int()"
                            /\ UNCHANGED <<i_pc, single_mode, workers, model>>
                       ELSE /\ workers' = int(cmd[2]).val
                            /\ printed' = "Workers set to"
                            /\ UNCHANGED <<i_pc, single_mode, model>>
           ELSE IF cmd[1] = "/model" /\ Len(cmd) > 1
               THEN /\ model' = cmd[2]
                    /\ printed' = "Model set to"
                    /\ UNCHANGED <<i_pc, single_mode, workers>>
           ELSE IF cmd[1] \in {"/workers", "/model", "/bogus"}
               THEN /\ printed' = "Unknown command"
                    /\ UNCHANGED <<i_pc, single_mode, workers, model>>
           ELSE /\ i_pc' = IF outcome = "KeyboardInterrupt" THEN "ended" ELSE "reading"
                /\ printed' = CASE outcome = "result" -> "result"
                                [] outcome = "Exception" -> "Error: task failed"
                                [] OTHER -> "Goodbye!"
                /\ UNCHANGED <<single_mode, workers, model>>

----------------------------------------------------------------------------
(* Specifications *)

\* the orchestrator
Init ==
    /\ ParseIdle
    /\ ToolIdle
    /\ FrontIdle
    /\ AgentIdle
    /\ max_iterations = DEFAULT_MAX_ITERATIONS
    /\ OrchIdle
    /\ max_workers \in 1..MaxWorkers

Next ==
    \/ /\ \E task \in OrchestratorTasks, summ \in BOOLEAN, reply \in DecompositionReplies :
              CallRun(task, summ, reply)
       /\ UNCHANGED <<parse_vars, tool_vars, front_vars, agent_vars>>
    \/ /\ \E subs \in DirectSubtasks : CallExecuteParallel(subs)
       /\ UNCHANGED <<parse_vars, tool_vars, front_vars, agent_vars>>
    \/ /\ \E i \in 1..Len(fut) : WorkerStart(i)
       /\ UNCHANGED <<parse_vars, tool_vars, front_vars, agent_vars>>
    \/ /\ \E i \in 1..Len(fut) : \E outcome \in AgentOutcomes(i - 1) : AgentEnds(i, outcome)
       /\ UNCHANGED <<parse_vars, tool_vars, front_vars, agent_vars>>
    \/ /\ \E i \in 1..Len(fut) : Collect(i)
       /\ UNCHANGED <<parse_vars, tool_vars, front_vars, agent_vars>>
    \/ /\ ExecuteParallelReturn
       /\ UNCHANGED <<parse_vars, tool_vars, front_vars, agent_vars>>
    \/ /\ \E reply \in SummaryReplies : RunReturn(reply)
       /\ UNCHANGED <<parse_vars, tool_vars, front_vars, agent_vars>>

Spec == Init /\ [][Next]_vars

\* a step of the pool or of the as_completed loop
PoolProgress ==
    /\ \/ \E i \in 1..Len(fut) : WorkerStart(i)
       \/ \E i \in 1..Len(fut) : \E outcome \in AgentOutcomes(i - 1) : AgentEnds(i, outcome)
       \/ \E i \in 1..Len(fut) : Collect(i)
    /\ UNCHANGED <<parse_vars, tool_vars, front_vars, agent_vars>>

\* the orchestrator with a pool that makes progress: an idle pool thread takes
\* the next queued item, every AgentWorker.run ends (its loop is bounded and
\* every request it makes has a timeout), and as_completed yields every
\* finished future
SpecFair == Spec /\ WF_vars(PoolProgress)

\* what the models return in the pool of one worker
PoolDecompositions == {ArrayText(2), R_TEXT}
PoolReplies        == {REPLY_THOUGHT, REPLY_TOOL, REPLY_ANSWER}

\* the pool thread takes item i and calls _run_agent(i - 1, subtasks[i]), lines
\* 133-136: a new AgentWorker is built and its run starts (agent.py 209-214)
RunAgentStarts(i) ==
    /\ WorkerStart(i)
    /\ a_pc' = "loop"
    /\ a_task' = subtasks[i].v
    /\ a_i' = 0
    /\ messages' = InitialMessages(subtasks[i].v)
    /\ history' = <<>>
    /\ replies' = <<>>
    /\ tool_calls' = <<>>
    /\ a_result' = NoResult
    /\ runs' = 1
    /\ UNCHANGED max_iterations

\* run of the agent of item i has returned or raised: the future is done and
\* the pool thread is free, the AgentWorker is dropped
RunAgentEnds(i) ==
    /\ a_pc \in {"done", "raised"}
    /\ AgentEnds(i, IF a_pc = "raised" THEN Raises(<<"e">>)
                    ELSE Returned([a_result EXCEPT !.agent_id = AgentId(i - 1)]))
    /\ a_pc' = "unbuilt"
    /\ a_task' = <<>>
    /\ a_i' = 0
    /\ messages' = <<>>
    /\ history' = <<>>
    /\ replies' = <<>>
    /\ tool_calls' = <<>>
    /\ a_result' = NoResult
    /\ runs' = 0
    /\ UNCHANGED max_iterations

\* the orchestrator with one worker, whose agent runs the loop of AgentWorker.run
InitOneWorker ==
    /\ ParseIdle
    /\ ToolIdle
    /\ FrontIdle
    /\ AgentUnbuilt
    /\ max_iterations = DEFAULT_MAX_ITERATIONS
    /\ OrchIdle
    /\ max_workers = 1

\* the steps of the running agent: a pass of its loop, or the end of its run
AgentSteps ==
    \/ /\ \E reply \in PoolReplies : AgentIterate(reply, MCP_SUCCESS)
       /\ UNCHANGED <<parse_vars, tool_vars, front_vars, orch_vars>>
    \/ /\ AgentQueryReturnsNone
       /\ UNCHANGED <<parse_vars, tool_vars, front_vars, orch_vars>>
    \/ /\ AgentExhausted
       /\ UNCHANGED <<parse_vars, tool_vars, front_vars, orch_vars>>

\* the steps of the pool thread and of the thread that called run
PoolSteps ==
    \/ /\ \E i \in 1..Len(fut) : RunAgentStarts(i)
       /\ UNCHANGED <<parse_vars, tool_vars, front_vars>>
    \/ /\ \E i \in 1..Len(fut) : RunAgentEnds(i)
       /\ UNCHANGED <<parse_vars, tool_vars, front_vars>>
    \/ /\ \E i \in 1..Len(fut) : Collect(i)
       /\ UNCHANGED <<parse_vars, tool_vars, front_vars, agent_vars>>
    \/ /\ ExecuteParallelReturn
       /\ UNCHANGED <<parse_vars, tool_vars, front_vars, agent_vars>>
    \/ /\ \E reply \in SummaryReplies : RunReturn(reply)
       /\ UNCHANGED <<parse_vars, tool_vars, front_vars, agent_vars>>

OneWorkerNext ==
    \/ /\ \E task \in OrchestratorTasks, summ \in BOOLEAN, reply \in PoolDecompositions :
              CallRun(task, summ, reply)
       /\ UNCHANGED <<parse_vars, tool_vars, front_vars, agent_vars>>
    \/ AgentSteps
    \/ PoolSteps

\* what every step of AgentSteps does to the position of the agent: the pass
\* counter advances (lines 216, 248-258) or run is left (lines 246, 267, or by
\* the exception of line 221)
AgentAdvances ==
    /\ a_pc = "loop"
    /\ a_pc' \in {"loop", "done", "raised"}
    /\ a_i' \in {a_i, a_i + 1}

\* the query and the tool call of the pass the agent is in return
\* (requests.post has a timeout, agent.py 90, and so has every command of the
\* MCP client), so the agent takes its next step; the pool thread and the
\* caller of run take theirs. In a state of the loop AgentSteps is enabled and
\* is the only step there is, and each of its steps changes <<a_pc, a_i>> as
\* AgentAdvances says.
SpecOneWorker ==
    /\ InitOneWorker
    /\ [][OneWorkerNext]_vars
    /\ WF_<<a_pc, a_i>>(AgentAdvances)
    /\ WF_vars(PoolSteps)

\* the values of --workers / "/workers N" the command line accepts: any integer
WorkerSettings == {-1, 0} \cup (1..MaxWorkers)

\* the orchestrator under every setting of max_workers
InitAnyWorkers ==
    /\ ParseIdle
    /\ ToolIdle
    /\ FrontIdle
    /\ AgentIdle
    /\ max_iterations = DEFAULT_MAX_ITERATIONS
    /\ OrchIdle
    /\ max_workers \in WorkerSettings

SpecAnyWorkers == InitAnyWorkers /\ [][Next]_vars

\* the response parser
ParseInit ==
    /\ ParseIdle
    /\ ToolIdle
    /\ FrontIdle
    /\ AgentIdle
    /\ max_iterations = DEFAULT_MAX_ITERATIONS
    /\ OrchIdle
    /\ max_workers = 1

ParseNext ==
    \/ /\ \E f \in Fragments : AppendFragment(f)
       /\ UNCHANGED <<tool_vars, front_vars, agent_vars, orch_vars>>
    \/ /\ CallParseResponse
       /\ UNCHANGED <<tool_vars, front_vars, agent_vars, orch_vars>>

SpecParse == ParseInit /\ [][ParseNext]_vars

\* the bot, under every value of ALLOWED_USER_IDS in the environment
BotInit ==
    /\ ParseIdle
    /\ ToolIdle
    /\ AgentIdle
    /\ max_iterations = DEFAULT_MAX_ITERATIONS
    /\ OrchIdle
    /\ max_workers = 1
    /\ ReplIdle
    /\ \E text \in EnvTexts : ALLOWED_USER_IDS = SplitComma(text)
    /\ carried_out = <<>>
    /\ sent = "none"

BotNext ==
    \/ /\ \E author \in Authors, platform \in Platforms : deploy(author, platform)
       /\ UNCHANGED <<parse_vars, tool_vars, agent_vars, orch_vars, repl_vars>>
    \/ /\ \E author \in Authors : agent(author)
       /\ UNCHANGED <<parse_vars, tool_vars, agent_vars, orch_vars, repl_vars>>
    \/ /\ \E author \in Authors, command \in Commands : run_command(author, command)
       /\ UNCHANGED <<parse_vars, tool_vars, agent_vars, orch_vars, repl_vars>>
    \/ /\ \E author \in Authors, platform \in Platforms : slash_deploy(author, platform)
       /\ UNCHANGED <<parse_vars, tool_vars, agent_vars, orch_vars, repl_vars>>

SpecBot == BotInit /\ [][BotNext]_vars

\* interactive_mode reading a finite input stream
InteractiveInit ==
    /\ ParseIdle
    /\ ToolIdle
    /\ AgentIdle
    /\ max_iterations = DEFAULT_MAX_ITERATIONS
    /\ OrchIdle
    /\ max_workers = 1
    /\ BotIdle
    /\ i_pc = "reading"
    /\ stdin \in InputStreams
    /\ single_mode \in BOOLEAN
    /\ workers = 3
    /\ model = "ai/llama3.2"
    /\ printed = ""

LoopPass ==
    \/ \E outcome \in TaskOutcomes : ReadLine(outcome)
    \/ EndOfInput

InteractiveNext ==
    \/ /\ \E outcome \in TaskOutcomes : ReadLine(outcome)
       /\ UNCHANGED <<parse_vars, tool_vars, agent_vars, orch_vars, bot_vars>>
    \/ /\ EndOfInput
       /\ UNCHANGED <<parse_vars, tool_vars, agent_vars, orch_vars, bot_vars>>
    \/ /\ Interrupt
       /\ UNCHANGED <<parse_vars, tool_vars, agent_vars, orch_vars, bot_vars>>

\* the loop keeps making passes; a Ctrl-C may or may not come
SpecInteractive ==
    /\ InteractiveInit
    /\ [][InteractiveNext]_vars
    /\ WF_vars(LoopPass /\ UNCHANGED <<parse_vars, tool_vars, agent_vars, orch_vars, bot_vars>>)

\* execute_tool
ToolInit == ParseInit

ToolNext ==
    /\ \E tool_name \in ToolNames, args \in ToolArgs :
          \E outcome \in McpOutcomes(Dispatched(tool_name)) :
              CallExecuteTool(tool_name, args, outcome)
    /\ UNCHANGED <<parse_vars, agent_vars, orch_vars, front_vars>>

SpecTool == ToolInit /\ [][ToolNext]_vars

\* one agent
AgentInit ==
    /\ ParseIdle
    /\ ToolIdle
    /\ FrontIdle
    /\ AgentUnbuilt
    /\ max_iterations \in 1..MaxBudget
    /\ OrchIdle
    /\ max_workers = 1

AgentNext ==
    \/ /\ \E arguments \in ConstructorCalls : Construct(arguments)
       /\ UNCHANGED <<parse_vars, tool_vars, front_vars, orch_vars>>
    \/ /\ \E task \in Tasks : AgentRun(task)
       /\ UNCHANGED <<parse_vars, tool_vars, front_vars, orch_vars>>
    \/ /\ \E reply \in ModelReplies, outcome \in ToolOutcomes : AgentIterate(reply, outcome)
       /\ UNCHANGED <<parse_vars, tool_vars, front_vars, orch_vars>>
    \/ /\ AgentQueryReturnsNone
       /\ UNCHANGED <<parse_vars, tool_vars, front_vars, orch_vars>>
    \/ /\ AgentExhausted
       /\ UNCHANGED <<parse_vars, tool_vars, front_vars, orch_vars>>

SpecAgent == AgentInit /\ [][AgentNext]_vars

\* the tasks and model replies of an agent that is run more than once
ReuseTasks   == { <<"a">>, <<"kubernetes">> }
ReuseReplies == { REPLY_THOUGHT, REPLY_ANSWER }

\* one agent, run again after its run has returned
ReuseNext ==
    \/ /\ \E arguments \in ConstructorCalls : Construct(arguments)
       /\ UNCHANGED <<parse_vars, tool_vars, front_vars, orch_vars>>
    \/ /\ \E task \in ReuseTasks : AgentRun(task)
       /\ UNCHANGED <<parse_vars, tool_vars, front_vars, orch_vars>>
    \/ /\ \E reply \in ReuseReplies : AgentIterate(reply, MCP_SUCCESS)
       /\ UNCHANGED <<parse_vars, tool_vars, front_vars, orch_vars>>
    \/ /\ AgentExhausted
       /\ UNCHANGED <<parse_vars, tool_vars, front_vars, orch_vars>>
    \/ /\ \E task \in ReuseTasks : AgentRunAgain(task)
       /\ UNCHANGED <<parse_vars, tool_vars, front_vars, orch_vars>>

SpecAgentReuse == AgentInit /\ [][ReuseNext]_vars

----------------------------------------------------------------------------
(* Properties of the orchestrator (Spec) *)

Gathered == o_pc \in {"gathered", "done"}

\* C1: whatever the number of subtasks, the pool size and the order in which the
\* agents complete, execute_parallel returns one result per subtask, every
\* collected (index, result) pair sits at its index, and the result at index i
\* was produced by the agent "agent-i".
C1_ResultsInSubtaskOrder ==
    Gathered =>
        /\ Len(returned) = Len(subtasks)
        /\ \A k \in 1..Len(results) : returned[results[k][1] + 1] = results[k][2]
        /\ \A i \in 1..Len(subtasks) :
              ~produced[i].raised =>
                  /\ returned[i] = produced[i].result
                  /\ returned[i].agent_id = AgentId(i - 1)

\* C1 happens: three subtasks on two workers, the agent of the last subtask
\* collected first and the agent of the first subtask last
C1_Witness ==
    /\ o_pc = "done"
    /\ entry = "execute_parallel"
    /\ Len(subtasks) = 3
    /\ max_workers = 2
    /\ results[1][1] = 2
    /\ results[3][1] = 0
    /\ \A i \in 1..3 : ~produced[i].raised

\* C2: when an agent raises, execute_parallel still returns one result per
\* subtask; the slot of the agent that raised holds status "error", the error
\* text and iterations 0, and every other slot holds what its agent returned.
C2_FailedAgentIsolated ==
    Gathered =>
        /\ Len(returned) = Len(subtasks)
        /\ \A i \in 1..Len(subtasks) :
              IF produced[i].raised
              THEN /\ returned[i].status = "error"
                   /\ returned[i].answer = PyStr(<<"Agent error: ">> \o produced[i].error)
                   /\ returned[i].iterations = 0
              ELSE returned[i] = produced[i].result

\* C2 happens: of three agents the middle one raised, the others returned
C2_Witness ==
    /\ o_pc = "done"
    /\ Len(subtasks) = 3
    /\ produced[2].raised
    /\ ~produced[1].raised
    /\ ~produced[3].raised
    /\ returned[2].status = "error"

\* the text run hands to json.loads is no JSON document, or is one that is no array
DecompositionFails ==
    LET r == json_loads(Unfenced(llm_reply)) IN ~r.ok \/ r.val.k # "list"

\* C9: when the decomposition reply (fences stripped, as decompose_task does) is
\* not JSON or not an array, or the query failed, run works on exactly one
\* subtask, the original task, and runs exactly one agent.
C9_DecompositionFallback ==
    (entry = "run" /\ (DecompositionFails \/ llm_reply = R_ERROR)) =>
        /\ subtasks = <<o_task>>
        /\ Len(fut) = 1
        /\ (o_pc = "done" =>
                /\ o_result.subtasks = <<o_task>>
                /\ Len(o_result.results) = 1)

\* C9 happens: run has returned after a reply that is plain text
C9_Witness ==
    /\ o_pc = "done"
    /\ entry = "run"
    /\ llm_reply = R_TEXT
    /\ o_result.subtasks = <<o_task>>
    /\ fut = <<"collected">>

\* C10: the status run returns is "complete" exactly when every agent returned
\* a result with status "complete", and "partial" in every other case.
C10_StatusCompleteIffAll ==
    (o_pc = "done" /\ entry = "run") =>
        /\ o_result.status \in {"complete", "partial"}
        /\ o_result.status = "complete" <=>
              \A i \in 1..Len(subtasks) :
                  ~produced[i].raised /\ produced[i].result.status = "complete"

\* C10 happens: more than one agent, exactly one of them out of budget, the
\* others complete, and the status is "partial"
C10_Witness ==
    /\ o_pc = "done"
    /\ entry = "run"
    /\ Len(subtasks) > 1
    /\ Cardinality({i \in 1..Len(subtasks) :
                       ~produced[i].raised
                       /\ produced[i].result.status = "max_iterations"}) = 1
    /\ \A i \in 1..Len(subtasks) :
          ~produced[i].raised
          /\ produced[i].result.status \in {"complete", "max_iterations"}
    /\ o_result.status = "partial"

\* C12: run never ends abnormally: for every task, every max_workers setting
\* and every decomposition reply, run ends by returning an OrchestratorResult
\* whose status is "complete" or "partial".
C12_RunNeverRaises ==
    /\ o_pc # "raised"
    /\ (o_pc = "done" /\ entry = "run") => o_result.status \in {"complete", "partial"}

RunDone == o_pc = "done" /\ entry = "run"

\* every agent has returned (or raised) and its future has been collected
AllAgentsReturned == \A i \in 1..Len(fut) : fut[i] = "collected"

\* C16: run asks for a summary at most once, only when summarize is true and
\* there is more than one subtask, and only after every agent has returned; when
\* summarize is false or there are fewer than two subtasks it makes no summary
\* query and the summary of the result is None.
C16_SummaryAtMostOnce ==
    /\ summary_calls \in {0, 1}
    /\ summary_calls = 1 =>
          /\ summarize
          /\ Len(subtasks) > 1
          /\ AllAgentsReturned
    /\ RunDone =>
          /\ (summarize /\ Len(subtasks) > 1) => summary_calls = 1
          /\ (o_result.summary = PyNone) <=> (summary_calls = 0)

\* C16 happens: run has returned with summarize true and one subtask only
C16_Witness ==
    /\ RunDone
    /\ summarize
    /\ Len(subtasks) = 1
    /\ summary_calls = 0
    /\ o_result.summary = PyNone

\* what the agents of subtasks 1..n contributed: the iterations of the result
\* an agent returned, nothing for an agent that raised
RECURSIVE IterationsOfAgents(_)
IterationsOfAgents(n) ==
    IF n = 0 THEN 0
    ELSE IterationsOfAgents(n - 1)
         + (IF produced[n].raised THEN 0 ELSE produced[n].result.iterations)

\* C17: total_iterations of the result is the sum of the iterations of the
\* results of all subtasks; an agent that raised counts 0.
C17_TotalIterationsIsSum ==
    RunDone =>
        /\ o_result.total_iterations = IterationsOfAgents(Len(subtasks))
        /\ \A i \in 1..Len(subtasks) :
              produced[i].raised => o_result.results[i].iterations = 0

\* C17 happens: three agents, one answered at once, one ran out of budget, one
\* raised
C17_Witness ==
    /\ RunDone
    /\ Len(subtasks) = 3
    /\ \E i, j, k \in 1..3 :
          /\ produced[i].raised
          /\ ~produced[j].raised /\ produced[j].result.status = "complete"
          /\ ~produced[k].raised /\ produced[k].result.status = "max_iterations"
    /\ o_result.total_iterations = DEFAULT_MAX_ITERATIONS + 1

\* C18: the duration run records spans decomposition through summarization:
\* the start time is read before the decomposition query and the end time is
\* read after the summary query, when there is one, has returned.
C18_DurationSpansSummary ==
    RunDone =>
        /\ Find(timeline, "start_time") < Find(timeline, "decomposition_query")
        /\ Find(timeline, "decomposition_query") < Find(timeline, "end_time")
        /\ Contains(timeline, "summary_query") =>
              Find(timeline, "summary_query") < Find(timeline, "end_time")

\* the agent of subtask i has run to its end
AgentEnded(i) == fut[i] \in {"done", "collected"}

\* C19: at every moment of execute_parallel at most max_workers agents are
\* running; a subtask still waiting for a worker has every later subtask waiting
\* behind it (workers are handed out in index order); and the agent of every
\* subtask eventually runs to its end.
C19_BoundedPoolRunsAll ==
    /\ [](/\ Cardinality(Running) <= max_workers
          /\ \A i, j \in 1..Len(fut) :
                (i < j /\ fut[i] = "queued") => fut[j] = "queued")
    /\ (o_pc = "pool") ~> (\A i \in 1..Len(fut) : AgentEnded(i))

\* C19 happens: three subtasks on two workers, the third got its worker after
\* the first agent had ended, while the second was still running
C19_Witness ==
    /\ o_pc = "pool"
    /\ max_workers = 2
    /\ Len(fut) = 3
    /\ AgentEnded(1)
    /\ fut[2] = "running"
    /\ fut[3] = "running"

----------------------------------------------------------------------------
(* Properties of the agent loop (SpecAgent) *)

\* the replies so far are all thoughts: no answer, no tool call
OnlyThoughts == \A k \in 1..Len(replies) : parse_response(replies[k]).type = "thought"

\* C3: an agent whose model only ever returns thoughts never queries the model
\* more than max_iterations times, and ends after exactly max_iterations
\* queries with status "max_iterations" and iterations = max_iterations.
C3_ThoughtsExhaustBudget ==
    OnlyThoughts =>
        /\ Len(replies) <= max_iterations
        /\ (a_pc = "done" =>
                /\ Len(replies) = max_iterations
                /\ a_result.status = "max_iterations"
                /\ a_result.iterations = max_iterations)

\* C3 happens: a run of at least two iterations, all thoughts, has ended
C3_Witness ==
    /\ a_pc = "done"
    /\ OnlyThoughts
    /\ max_iterations >= 2
    /\ Len(replies) = max_iterations
    /\ a_result.status = "max_iterations"

AnsweredFirst == Len(replies) >= 1 /\ replies[1] = REPLY_ANSWER

ShortCircuited ==
    /\ a_pc = "done"
    /\ a_result.status = "complete"
    /\ a_result.answer = PyStr(<<"4", "2">>)
    /\ a_result.iterations = 1
    /\ Len(replies) = 1
    /\ tool_calls = <<>>

\* C4 as stated: for every task, an agent whose model returns "ANSWER: 42" on its
\* first query ends with status "complete", answer "42" and iterations 1, after
\* one model query and no tool execution.
C4_AnswerShortCircuitAnyTask == AnsweredFirst => ShortCircuited

\* the task contains none of the keyword combinations of lines 224-231
NoOverrideKeywords(task) ==
    LET has(w) == \E i \in 1..Len(task) : Lower(task[i]) = w \/ (task[i] = "Check" /\ w = "check")
    IN  /\ ~(has("docker") /\ (has("list") \/ has("container")))
        /\ ~has("kubernetes")
        /\ ~has("pod")
        /\ ~(has("file") /\ has("list"))
        /\ ~has("status")
        /\ ~has("check")

\* C4, amended: the same for every task that contains none of the keywords of
\* the first-turn override.
C4_AnswerShortCircuit == (AnsweredFirst /\ NoOverrideKeywords(a_task)) => ShortCircuited

\* C4 happens: the answer came first, with a budget above one
C4_Witness ==
    /\ AnsweredFirst
    /\ NoOverrideKeywords(a_task)
    /\ max_iterations > 1
    /\ a_result.status = "complete"

\* run is over, one way or the other
RunOver == a_pc \in {"done", "raised"}

\* C11: no exception leaves run: whatever the model queries return and whatever
\* the tools do, run ends by returning a result whose status is "complete" or
\* "max_iterations".
C11_RunAlwaysReturns ==
    RunOver =>
        /\ a_pc = "done"
        /\ a_result.status \in {"complete", "max_iterations"}

\* this step is one pass of the loop body in which query_llm returned a text
IsIteration == Len(replies') = Len(replies) + 1

\* the text query_llm returned in this pass
ThisReply == replies'[Len(replies')]

\* the messages this step added at the end of the conversation
Appended == SubSeq(messages', Len(messages) + 1, Len(messages'))

\* the conversation starts as [system, user(task)] and only grows at its end
StartsAndOnlyGrows ==
    /\ (a_pc = "idle" /\ a_pc' = "loop") =>
          /\ Len(messages') = 2
          /\ messages'[1].role = "system"
          /\ messages'[2] = Message("user", a_task')
    /\ a_pc = "loop" =>
          /\ Len(messages') >= Len(messages)
          /\ SubSeq(messages', 1, Len(messages)) = messages

\* C13 as stated: the conversation starts as [system, user(task)] and only
\* grows by appending; every pass of the loop appends one assistant message
\* holding the raw model response, followed by one user message unless run
\* returns in that pass, in which case no user message is appended.
C13_ConversationAsStated ==
    [][/\ StartsAndOnlyGrows
       /\ IsIteration =>
             /\ Len(Appended) = (IF a_pc' = "done" THEN 1 ELSE 2)
             /\ Appended[1] = Message("assistant", ThisReply)
             /\ (Len(Appended) = 2 => Appended[2].role = "user")]_vars

\* C13, amended: the conversation starts as [system, user(task)] and only grows
\* by appending; a pass that ends in an answer appends nothing, and every other
\* pass appends one assistant message holding the response the loop acted on
\* (the model's response, or the forced tool call that replaced it on the first
\* turn), followed by one user message.
C13_ConversationGrowth ==
    [][/\ StartsAndOnlyGrows
       /\ IsIteration =>
             IF a_pc' = "done" THEN Appended = <<>>
             ELSE /\ Len(Appended) = 2
                  /\ Appended[1] = Message("assistant",
                                           EffectiveResponse(a_task, a_i, ThisReply))
                  /\ Appended[2].role = "user"]_vars

\* C13 happens: a first pass whose response was replaced by a forced tool call,
\* a thought pass and a pass that answered
C13_Witness ==
    /\ a_pc = "done"
    /\ a_result.status = "complete"
    /\ Len(replies) = 3
    /\ Len(messages) = 6
    /\ messages[3].content # replies[1]
    /\ messages[5] = Message("assistant", replies[2])

\* the user message pass j of the loop appended: every pass but an answering
\* one, which is the last, appends two messages
UserMessageOfPass(j) == messages[2 * j + 2]

\* C14: execute_tool looks the tool up by its lower-cased, trimmed name; for a
\* name that is no known tool it returns "Unknown tool: <name>" and does not
\* raise, and the loop goes on to its next pass with that text as the tool
\* result; a known tool spelled in another case is not reported unknown.
C14_UnknownToolIsText ==
    \A j \in 1..Len(history) :
        history[j].parsed.type = "tool" =>
            LET name == Strip(LowerText(history[j].parsed.tool))
            IN  /\ a_pc # "raised" => a_i >= j
                /\ Len(messages) >= 2 * j + 2
                /\ UserMessageOfPass(j).role = "user"
                /\ IF Len(name) = 1 /\ name[1] \in KnownTools
                   THEN UserMessageOfPass(j).content[2] # "Unknown tool: "
                   ELSE UserMessageOfPass(j).content =
                            <<"Tool result:", "Unknown tool: ">> \o name
                            \o <<"Continue reasoning or provide ANSWER.">>

\* C14 happens: the unknown tool "A" was called in the first pass, the known
\* tool "Docker_PS" in the second, and the third pass answered
C14_Witness ==
    /\ a_pc = "done"
    /\ a_result.status = "complete"
    /\ Len(history) = 3
    /\ history[1].parsed.tool = <<"A">>
    /\ UserMessageOfPass(1).content[3] = "a"
    /\ history[2].parsed.tool = <<"Docker_PS">>
    /\ UserMessageOfPass(2).content[2] = "stdout"

\* C20: an AgentWorker can be constructed with critic_mode=True (and then
\* follows every main response by a critic query, executing the tool call the
\* critic corrected it to): constructing one never fails.
C20_CriticModeConstructs == a_pc # "no_agent"

\* query k of this run failed: query_llm returned the text of the failure
QueryFailed(k) == replies[k] = REPLY_ERROR

\* the failed query k did not end the run: the loop went on to its next pass,
\* having used up one iteration, and run did not return in pass k
FailureDoesNotEndRun(k) ==
    /\ a_pc # "raised" => a_i >= k
    /\ a_pc = "done" => Len(replies) > k
    /\ Len(messages) >= 2 * k + 2
    /\ messages[2 * k + 2].role = "user"

\* a model that fails on every query uses up the budget, no more, no less
AllFailuresExhaustBudget ==
    ((\A k \in 1..Len(replies) : QueryFailed(k)) /\ a_pc = "done") =>
        /\ a_result.status = "max_iterations"
        /\ Len(replies) = max_iterations

Overridden(k) == history[k].response # replies[k]

\* C25: the forced tool call replaces a model response at most once in a run,
\* only in the first pass (index 0) and only when that response has no "TOOL:"
\* marker; the overridden pass counts as iteration 1, so an answer to the next
\* query is reported with iterations = 2.
C25_OverrideOnceOnFirstTurn ==
    /\ Len(history) = Len(replies)
    /\ \A k \in 1..Len(history) :
          Overridden(k) => (k = 1 /\ ~Contains(replies[1], TOOL))
    /\ (/\ Len(replies) = 2
        /\ Overridden(1)
        /\ parse_response(replies[2]).type = "answer"
        /\ a_pc = "done") =>
           /\ a_result.status = "complete"
           /\ a_result.iterations = 2

\* C25 happens: the answer to the first query was replaced by a forced get_pods
\* call, and the answer to the second query ended the run
C25_Witness ==
    /\ a_pc = "done"
    /\ Len(replies) = 2
    /\ replies[1] = REPLY_ANSWER
    /\ history[1].response = FORCE_GET_PODS
    /\ replies[2] = REPLY_ANSWER
    /\ a_result.iterations = 2

\* the record pass k of this run appends to the trace, lines 235-236
RecordOfPass(k) ==
    LET resp == EffectiveResponse(a_task, k - 1, replies[k])
    IN  [iteration |-> k, response |-> resp, parsed |-> parse_response(resp)]

\* C26: a "max_iterations" result carries at most 3 trace records, which are
\* the records of the last min(3, max_iterations) passes of this run, in order,
\* and iterations equal to the budget.
C26_TrailingSliceOfThisRun ==
    (a_pc = "done" /\ a_result.status = "max_iterations") =>
        LET n == Min(3, max_iterations)
        IN  /\ Len(a_result.partial_history) <= 3
            /\ a_result.partial_history =
                   [j \in 1..n |-> RecordOfPass(max_iterations - n + j)]
            /\ a_result.iterations = max_iterations

\* C33: a result run returns is well-formed: "complete" comes with an answer
\* and with iterations between 1 and max_iterations, equal to the number of
\* model queries made; "max_iterations" comes with no answer, with iterations
\* equal to max_iterations and with exactly max_iterations queries made.
C33_ResultWellFormed ==
    a_pc = "done" =>
        /\ a_result.status \in {"complete", "max_iterations"}
        /\ a_result.status = "complete" =>
               /\ a_result.answer.k = "str"
               /\ 1 <= a_result.iterations
               /\ a_result.iterations <= max_iterations
               /\ a_result.iterations = Len(replies)
        /\ a_result.status = "max_iterations" =>
               /\ a_result.answer = PyNone
               /\ a_result.iterations = max_iterations
               /\ Len(replies) = max_iterations

\* C33 happens: the answer came in the last pass the budget allows, after
\* passes that were not answers
C33_Witness ==
    /\ a_pc = "done"
    /\ a_result.status = "complete"
    /\ max_iterations >= 2
    /\ a_result.iterations = max_iterations
    /\ Len(replies) = max_iterations

\* the role the message at position j of an alternating conversation has
RoleAt(j) == IF j = 1 THEN "system" ELSE IF j % 2 = 0 THEN "user" ELSE "assistant"

\* C34: whenever the loop is about to query the model, the message list is one
\* system message followed by user and assistant messages in strict
\* alternation, ending with a user message, and after k passes that did not
\* end the run it has exactly 2 + 2k messages.
C34_RolesAlternate ==
    (a_pc = "loop" /\ a_i < max_iterations) =>
        /\ Len(messages) = 2 + 2 * a_i
        /\ \A j \in 1..Len(messages) : messages[j].role = RoleAt(j)
        /\ messages[Len(messages)].role = "user"

\* C34 happens: the third query is due after a tool pass and a thought pass
C34_Witness ==
    /\ a_pc = "loop"
    /\ a_i = 2
    /\ a_i < max_iterations
    /\ Len(tool_calls) = 1
    /\ Len(messages) = 6

\* the records the passes of this run have appended to the trace so far
RecordsOfThisRun == [k \in 1..Len(replies) |-> RecordOfPass(k)]

\* C31: nothing of an earlier run is in a later run on the same instance: the
\* conversation starts from the two messages of this task, the trace holds the
\* records of the passes of this run only, and the slice in a "max_iterations"
\* result holds no record of an earlier run.
C31_NothingCarriedOver ==
    a_pc \in {"loop", "done"} =>
        /\ SubSeq(messages, 1, 2) = InitialMessages(a_task)
        /\ Len(messages) <= 2 + 2 * Len(replies)
        /\ history = RecordsOfThisRun
        /\ a_result.status = "max_iterations" =>
               \A j \in 1..Len(a_result.partial_history) :
                   \E k \in 1..Len(replies) :
                       /\ a_result.partial_history[j] = RecordOfPass(k)
                       /\ Len(history) = Len(replies)

----------------------------------------------------------------------------
(* Properties of parse_response (SpecParse) *)

WasParsed == parsed # NotParsed

\* C5: a response that contains both "TOOL:" and "ANSWER:", in either order, is
\* classified as a tool call.
C5_ToolBeatsAnswer ==
    (WasParsed /\ Contains(response, TOOL) /\ Contains(response, ANSWER)) =>
        parsed.type = "tool"

\* C5 happens: "ANSWER:" comes before "TOOL:" in the parsed response
C5_Witness ==
    /\ WasParsed
    /\ Contains(response, TOOL)
    /\ Contains(response, ANSWER)
    /\ Find(response, ANSWER) < Find(response, TOOL)
    /\ parsed.type = "tool"

\* C6: parse_response returns for every response, with one of the four
\* classifications; no exception leaves it.
C6_ParseTotal ==
    WasParsed => parsed.type \in {"tool", "answer", "thought", "error"}

\* C6 happens: "TOOL:" without "ARGS:" and with an opening brace never closed
C6_Witness ==
    /\ WasParsed
    /\ Contains(response, TOOL)
    /\ ~Contains(response, ARGS)
    /\ Contains(response, LBRACE)
    /\ ~Contains(response, RBRACE)
    /\ parsed.type = "tool"

\* the argument block of the parsed response
ArgumentBlock == ArgsPart(Strip(response))

IsToolCallWithArgs == WasParsed /\ Contains(response, TOOL) /\ Contains(response, ARGS)

\* C7: when the argument block has no balanced brace span, or the span taken
\* from it is not valid JSON, the arguments are {"raw": first line of the block}.
C7_MalformedArgsBecomeRaw ==
    (/\ IsToolCallWithArgs
     /\ \/ MatchBraces(ArgumentBlock, 1, 0, FALSE) = 0
        \/ ~json_loads(CleanJsonStr(JsonStr(ArgumentBlock))).ok) =>
        /\ parsed.type = "tool"
        /\ parsed.args = RawArgs(ArgumentBlock)

\* C8: when the argument block begins with a well-formed JSON object, the
\* arguments are that object, whatever follows it.
C8_FirstObjectWins ==
    IsToolCallWithArgs =>
        \A n \in 1..Len(ArgumentBlock) :
            LET r == json_loads(SubSeq(ArgumentBlock, 1, n))
            IN  (r.ok /\ r.val.k = "dict") => parsed.args = r.val

\* the text between "TOOL:" and the end of its line
LineAfterTool == Strip(FirstLine(Split1(Strip(response), TOOL).rest))

\* C15: the tool name of a parsed tool call is the first word after "TOOL:" on
\* the same line: a parameter list is cut off at the first "(" and any other
\* text after the name, up to the end of the line, is dropped.
C15_ToolNameIsFirstWord ==
    (WasParsed /\ Contains(response, TOOL)) =>
        /\ parsed.type = "tool"
        /\ parsed.tool = SplitHead(Strip(SplitHead(LineAfterTool, LPAREN)), SP)

\* C24: the arguments of every tool call parse_response produces are a mapping:
\* when the text after "ARGS:" is not a JSON object (valid JSON of another kind
\* included) they are {"raw": <first line of that text>}.
C24_ArgsAlwaysMapping ==
    (WasParsed /\ parsed.type = "tool") =>
        /\ parsed.args.k = "dict"
        /\ LET r == json_loads(CleanJsonStr(JsonStr(ArgumentBlock)))
           IN  (Contains(response, ARGS) /\ ~(r.ok /\ r.val.k = "dict")) =>
                   parsed.args = RawArgs(ArgumentBlock)

\* the filler phrases of line 153
FillerPhrases == {"let me run ", "running ", "execute "}

\* a line with a leading filler phrase removed
LeadingPhraseRemoved(line) ==
    IF line # <<>> /\ Lower(line[1]) \in FillerPhrases THEN Tail(line) ELSE line

\* C27: a response with neither marker that contains a raw-command fragment is
\* parsed as the tool call run_command whose command is the first line with a
\* leading filler phrase removed; one with no fragment is a thought whose
\* content is the trimmed text.
C27_RawCommandIsFirstLine ==
    LET resp == Strip(response)
    IN  (parsed # NotParsed /\ ~Contains(resp, TOOL) /\ ~Contains(resp, ANSWER)) =>
            IF \E i \in 1..Len(resp) : Lower(resp[i]) \in raw_patterns
            THEN parsed = Parsed("tool", RUN_COMMAND,
                                 PyDict(COMMAND_KEY :>
                                     PyStr(LeadingPhraseRemoved(Strip(FirstLine(resp))))),
                                 <<>>)
            ELSE parsed = Parsed("thought", <<>>, PyNone, resp)

\* C35: agent_fixed classifies every response as agent does: the two
\* parse_response methods return the same type for the same text.
C35_FixedClassifiesAlike ==
    parsed # NotParsed => fixed_parse_response(response).type = parsed.type

\* C38: parse_response never returns the type "error": every response is
\* classified as tool, answer or thought.
C38_NeverMalformed ==
    parsed # NotParsed => parsed.type \in {"tool", "answer", "thought"}

\* C38 happens: a tool call whose ARGS text is not JSON went through the tool
\* branch and came out as a tool call with the raw text as its argument
C38_Witness ==
    /\ parsed # NotParsed
    /\ Contains(response, TOOL)
    /\ Contains(response, ARGS)
    /\ parsed.type = "tool"
    /\ parsed.args.k = "dict"
    /\ DOMAIN parsed.args.v = {RAW_KEY}

----------------------------------------------------------------------------
(* Properties of run of the orchestrator: summary, worker limit, termination *)

\* C29: when run asks for a summary, it returns whether the query succeeds or
\* fails: summary is the model's text or the literal error string, and status,
\* subtasks, results and total_iterations are what the gathered results alone
\* determine, the same in both cases.
C29_SummaryFailureDegrades ==
    [][(o_pc = "gathered" /\ o_pc' # "gathered" /\ summarize /\ Len(returned) > 1) =>
          /\ o_pc' = "done"
          /\ o_result'.summary \in {PyStr(reply) : reply \in SummaryReplies}
          /\ o_result'.status =
                 (IF \A i \in 1..Len(returned) : returned[i].status = "complete"
                  THEN "complete" ELSE "partial")
          /\ o_result'.subtasks = subtasks
          /\ o_result'.results = returned
          /\ o_result'.total_iterations = SumIterations(returned)]_vars

\* run has returned a result whose summary is the error text of a failed query
C29_Witness ==
    /\ RunDone
    /\ o_result.summary = PyStr(R_ERROR)
    /\ Len(o_result.results) > 1

\* the array the model wrote for the decomposition prompt, if it wrote one
ModelArray == json_loads(Unfenced(llm_reply))

\* C28: the list decompose_task returns never has more than max_workers
\* elements, it is the prefix of the model's array when that array is longer,
\* and so no agent dispatched by run waits in the queue for a free worker.
C28_SubtasksFitThePool ==
    entry = "run" =>
        /\ Len(subtasks) <= max_workers
        /\ (ModelArray.ok /\ ModelArray.val.k = "list"
                /\ Len(ModelArray.val.v) > max_workers) =>
               subtasks = SubSeq(ModelArray.val.v, 1, max_workers)
        /\ \A i \in 1..Len(fut) :
               fut[i] = "queued" => Cardinality(Running) < max_workers

\* the number of model queries the running agent has made so far in its run
QueriesMade == Len(replies) + (IF a_pc = "raised" THEN 1 ELSE 0)

\* the agent of item i holds the pool's worker
HoldsWorker(i) == i \in DOMAIN fut /\ fut[i] = "running"

\* C30: when every model call and every tool call returns, a run of an agent
\* makes at most max_iterations model queries and at most max_iterations tool
\* executions and ends; no agent holds a worker forever; and run of the
\* orchestrator returns.
C30_EverythingTerminates ==
    /\ [](QueriesMade <= max_iterations /\ Len(tool_calls) <= max_iterations)
    /\ (a_pc = "loop") ~> RunOver
    /\ \A i \in 1..MaxSubtasks : HoldsWorker(i) ~> ~HoldsWorker(i)
    /\ (entry = "run") ~> RunDone

\* C30 happens: run of the orchestrator has returned after its agent used up
\* its whole budget, the last passes on tool executions
C30_Witness ==
    /\ RunDone
    /\ Len(o_result.results) = 1
    /\ o_result.results[1].status = "max_iterations"
    /\ o_result.results[1].iterations = DEFAULT_MAX_ITERATIONS
    /\ \A k \in 1..3 : o_result.results[1].partial_history[k].parsed.type = "tool"

\* C32: run always dispatches at least one agent: the subtask list is never
\* empty, and a "complete" status of the orchestrator rests on at least one
\* agent that completed.
C32_AtLeastOneAgent ==
    entry = "run" =>
        /\ Len(subtasks) >= 1
        /\ (RunDone /\ o_result.status = "complete") =>
               \E i \in 1..Len(o_result.results) :
                   o_result.results[i].status = "complete"

----------------------------------------------------------------------------
(* Properties of the bot (SpecBot) and of interactive_mode (SpecInteractive) *)

\* C36: every privileged action the bot carried out was preceded by an
\* authorization check that passed, and its author is in ALLOWED_USER_IDS.
C36_OnlyAllowListedUsers ==
    \A k \in 1..Len(carried_out) :
        /\ carried_out[k].checked
        /\ carried_out[k].author \in Range(ALLOWED_USER_IDS)

\* C37: the interactive loop terminates on every finite input stream.
C37_LoopTerminates == <>(i_pc = "ended")

----------------------------------------------------------------------------
(* Properties of execute_tool (SpecTool) *)

\* the tool method of a known tool was called and returned a result
ToolMethodReturned ==
    /\ t_pc = "returned"
    /\ Dispatched(t_name) # ""
    /\ (Dispatched(t_name) \in ArgsFreeTools \/ t_args.k = "dict")
    /\ ~t_outcome.raised

\* C22: the text execute_tool returns, which run appends to the conversation as
\* the tool result, is never longer than a fixed constant (the limit of the cut
\* plus the longest fixed prefix), whatever the tool returned and whether it
\* succeeded or failed.
C22_ToolResultBounded ==
    t_pc = "returned" =>
        TextLen(t_text) <= TRUNCATE_LIMIT + CharLen("Exception executing tool: ")

\* C23: when a tool call fails and the executor gives the reason in the error
\* field of its result (as _run_cmd does on a timeout, with empty stdout and
\* stderr), the text execute_tool returns contains that reason.
C23_ErrorFieldFedBack ==
    (ToolMethodReturned /\ ~t_outcome.success /\ "error" \in t_outcome.keys) =>
        \A i \in 1..Len(t_outcome.error) : Contains(t_text, t_outcome.error[i])

====
